---- MODULE Spec2Model ----
(***************************************************************************)
(* A model of picosvg's geometry and tree-rewrite engine: the affine       *)
(* algebra (svg_transform.py), the path command model (svg_types.py,       *)
(* svg_meta.py, svg_path_iter.py), the shape-reuse matcher (svg_reuse.py)  *)
(* and the normalization pipeline (svg.py).                                *)
(*                                                                         *)
(* Python floats are modelled as exact rationals <<n, d>> (d > 0, lowest   *)
(* terms): every operation below computes what the Python expression       *)
(* computes whenever the float result is exact.  The floats of number text *)
(* (path data, attribute values) are decimals [sign, m, e].  A document is *)
(* a heap of elements, as an lxml tree is.                                 *)
(***************************************************************************)
EXTENDS Integers, Sequences, FiniteSets, TLC

VARIABLES
    affA,      \* Affine2D operand (self / first)
    affB,      \* Affine2D operand (second), or the sequence handed to compose_ltr
    affOut,    \* the Affine2D the last operation returned
    affOp,     \* the last Affine2D operation: "init", "inverse", "product", "compose_ltr"
    pathD,     \* SVGPath.d, as the sequence of exploded commands it parses to
    pathOrig,  \* d before the last rewrite
    pathOp,    \* the last rewrite: "init", "absolute", "relative", "explicit_lines", "expand_shorthand"
    pathPrevOp,  \* the rewrite before the last one
    walkOut,   \* the locals of the last walk when it ended
    txtD,      \* a path-data string
    txtExploded,  \* the exploded argument of parse_svg_path
    txtCmds,   \* what parsing txtD gave
    txtD2,     \* the d of the SVGPath built from txtCmds
    txtCmds2,  \* what parsing txtD2 gave
    txtPhase,  \* "init", "invalid", "parsed", "serialized", "reparsed"
    reuseS1,   \* affine_between's s1, as its commands
    reuseS2,   \* affine_between's s2
    reuseF1,   \* s1 once it is _affine_friendly(s1)
    reuseF2,   \* s2 once it is _affine_friendly(s2)
    reuseTol,  \* affine_between's tolerance
    reusePos,  \* where affine_between is: "start", "translate", "rotate_scale",
               \* "non_uniform", "returned", "raised"
    reuseOut,  \* what affine_between returned
    picoInput,    \* the document given to SVG.fromstring
    picoInplace,  \* topicosvg's inplace
    picoNdigits,  \* topicosvg's ndigits
    picoSelf,     \* the tree of the SVG that topicosvg is called on
    picoTree,     \* the tree the passes rewrite
    picoElements, \* self.elements of the SVG the passes rewrite
    picoPos,      \* the pass topicosvg is at, or "returned", "raised"
    picoRun,      \* 1 in the first call of topicosvg, 2 in the second
    picoFirst,    \* what the first call returned, as a document
    picoError,    \* the exception raised, "" if none
    docInput,     \* the document given to SVG.fromstring for a single operation,
                  \* or the commands of the path given to SVGPath
    docTree,      \* the tree of that SVG
    docPos,       \* the operation the caller is at, or "returned", "raised"
    docFrontier,  \* the frontier of _traverse, the calls of
                  \* _apply_gradient_template that have not returned, or the
                  \* commands SVGPath.walk has not reached
    docOut,       \* what the operation has yielded or returned so far
    docFirst,     \* what the operation keeps from before: what depth_first
                  \* yielded, the el_by_id of _resolve_use, the pen of walk
    docError      \* the exception raised, "" if none

affVars == <<affA, affB, affOut, affOp>>
pathVars == <<pathD, pathOrig, pathOp, pathPrevOp, walkOut>>
txtVars == <<txtD, txtExploded, txtCmds, txtD2, txtCmds2, txtPhase>>
reuseVars == <<reuseS1, reuseS2, reuseF1, reuseF2, reuseTol, reusePos, reuseOut>>
picoVars ==
    <<picoInput, picoInplace, picoNdigits, picoSelf, picoTree, picoElements, picoPos, picoRun, picoFirst,
      picoError>>
docVars == <<docInput, docTree, docPos, docFrontier, docOut, docFirst, docError>>

vars ==
    <<affA, affB, affOut, affOp, pathD, pathOrig, pathOp, pathPrevOp, walkOut,
      txtD, txtExploded, txtCmds, txtD2, txtCmds2, txtPhase,
      reuseS1, reuseS2, reuseF1, reuseF2, reuseTol, reusePos, reuseOut,
      picoInput, picoInplace, picoNdigits, picoSelf, picoTree, picoElements, picoPos, picoRun,
      picoFirst, picoError, docInput, docTree, docPos, docFrontier, docOut, docFirst, docError>>

(***************************************************************************)
(* Numbers.                                                                *)
(***************************************************************************)
\* the value of a function of one argument.  Only([x \in {e} |-> body]) is
\* body with x the value of e: e is evaluated once, as an assignment to a
\* local is
Only(f) == CHOOSE r \in UNION {{g[x] : x \in DOMAIN g} : g \in {f}} : TRUE

Abs(n) == IF n < 0 THEN -n ELSE n

RECURSIVE GCD(_, _)
GCD(a, b) == IF b = 0 THEN a ELSE GCD(b, a % b)

\* n/d in lowest terms with a positive denominator.
Norm(n, d) ==
    IF d = 1 THEN <<n, 1>>
    ELSE LET s == IF d < 0 THEN -1 ELSE 1
             g == GCD(Abs(n), Abs(d))
         IN  <<(s * n) \div g, (s * d) \div g>>

Rat(n) == <<n, 1>>
Zero == Rat(0)
One == Rat(1)

RNeg(p) == <<-p[1], p[2]>>
RAbs(p) == <<Abs(p[1]), p[2]>>

RAdd(p, q) ==
    IF p[2] = q[2] THEN Norm(p[1] + q[1], p[2])
    ELSE Only([g \in {GCD(p[2], q[2])} |->
             LET lp == q[2] \div g
                 lq == p[2] \div g
             IN  Norm(p[1] * lp + q[1] * lq, p[2] * lp)])

RSub(p, q) == RAdd(p, RNeg(q))

RMul(p, q) ==
    IF p[2] = 1 /\ q[2] = 1 THEN <<p[1] * q[1], 1>>
    ELSE LET g1 == GCD(Abs(p[1]), q[2])
             g2 == GCD(Abs(q[1]), p[2])
         IN  IF p[1] = 0 \/ q[1] = 0 THEN Zero
             ELSE <<(p[1] \div g1) * (q[1] \div g2), (p[2] \div g2) * (q[2] \div g1)>>

\* p / q for q # 0 (Python raises ZeroDivisionError for q = 0).
RDiv(p, q) == RMul(p, Norm(q[2], q[1]))

\* p <= q, p < q: by the integer parts, then by the fractional parts
RLe(p, q) ==
    IF p[2] = q[2] THEN p[1] <= q[1]
    ELSE LET ip == p[1] \div p[2]
             iq == q[1] \div q[2]
             g == GCD(p[2], q[2])
         IN  IF ip # iq THEN ip < iq
             ELSE (p[1] % p[2]) * (q[2] \div g) <= (q[1] % q[2]) * (p[2] \div g)
RLt(p, q) == RLe(p, q) /\ p # q

(***************************************************************************)
(* geometric_types.py                                                      *)
(***************************************************************************)
DEFAULT_ALMOST_EQUAL_TOLERANCE == <<1, 1000000000>>   \* 1e-9

\* abs(c1 - c2) <= tolerance
almost_equal(c1, c2, tolerance) == RLe(RAbs(RSub(c1, c2)), tolerance)

Point(x, y) == [x |-> x, y |-> y]
Vector(x, y) == [x |-> x, y |-> y]

Point_almost_equals(p, other, tolerance) ==
    almost_equal(p.x, other.x, tolerance) /\ almost_equal(p.y, other.y, tolerance)

(***************************************************************************)
(* svg_transform.py: Affine2D                                              *)
(***************************************************************************)
Affine2D(a, b, c, d, e, f) == [a |-> a, b |-> b, c |-> c, d |-> d, e |-> e, f |-> f]

identity == Affine2D(One, Zero, Zero, One, Zero, Zero)
degenerate == Affine2D(Zero, Zero, Zero, Zero, Zero, Zero)
flip_y == Affine2D(One, Zero, Zero, RNeg(One), Zero, Zero)

\* A plausible slip: the factors multiplied in the other order.
product_swapped(first, second) ==
    Affine2D(
        RAdd(RMul(second.a, first.a), RMul(second.b, first.c)),
        RAdd(RMul(second.a, first.b), RMul(second.b, first.d)),
        RAdd(RMul(second.c, first.a), RMul(second.d, first.c)),
        RAdd(RMul(second.c, first.b), RMul(second.d, first.d)),
        RAdd(RAdd(RMul(first.a, second.e), RMul(first.c, second.f)), first.e),
        RAdd(RAdd(RMul(first.b, second.e), RMul(first.d, second.f)), first.f))

product(first, second) ==
    Affine2D(
        RAdd(RMul(first.a, second.a), RMul(first.b, second.c)),
        RAdd(RMul(first.a, second.b), RMul(first.b, second.d)),
        RAdd(RMul(first.c, second.a), RMul(first.d, second.c)),
        RAdd(RMul(first.c, second.b), RMul(first.d, second.d)),
        RAdd(RAdd(RMul(second.a, first.e), RMul(second.c, first.f)), second.e),
        RAdd(RAdd(RMul(second.b, first.e), RMul(second.d, first.f)), second.f))

\* self.matrix(a, b, c, d, e, f)
matrix(self, m) == product(m, self)

translate(self, tx, ty) ==
    IF tx = Zero /\ ty = Zero THEN self
    ELSE matrix(self, Affine2D(One, Zero, Zero, One, tx, ty))

scale(self, sx, sy) == matrix(self, Affine2D(sx, Zero, Zero, sy, Zero, Zero))

\* rotate(a, cx, cy) with the angle a given by cosA = cos(a), sinA = sin(a)
rotate(self, cosA, sinA, cx, cy) ==
    translate(
        matrix(translate(self, cx, cy), Affine2D(cosA, sinA, RNeg(sinA), cosA, Zero, Zero)),
        RNeg(cx), RNeg(cy))

\* skewx(a), skewy(a) with the angle a given by tanA = tan(a)
skewx(self, tanA) == matrix(self, Affine2D(One, Zero, tanA, One, Zero, Zero))
skewy(self, tanA) == matrix(self, Affine2D(One, tanA, Zero, One, Zero, Zero))

determinant(self) == RSub(RMul(self.a, self.d), RMul(self.b, self.c))

\* abs(det) <= float_info.epsilon: for the rationals of the model, det = 0
\* (the smallest non-zero |det| the model's inputs produce is far above 2.2e-16).
is_degenerate(self) == determinant(self) = Zero

inverse(self) ==
    IF self = identity THEN self
    ELSE IF is_degenerate(self) THEN degenerate
    ELSE LET det == determinant(self)
             a == RDiv(self.d, det)
             b == RDiv(RNeg(self.b), det)
             c == RDiv(RNeg(self.c), det)
             d == RDiv(self.a, det)
             e == RSub(RMul(RNeg(a), self.e), RMul(c, self.f))
             \* the statement "f = -b * e - d * f" reads the e assigned just above
             f == RSub(RMul(RNeg(b), e), RMul(d, self.f))
         IN  Affine2D(a, b, c, d, e, f)

map_point(self, pt) ==
    Point(RAdd(RAdd(RMul(self.a, pt.x), RMul(self.c, pt.y)), self.e),
          RAdd(RAdd(RMul(self.b, pt.x), RMul(self.d, pt.y)), self.f))

map_vector(self, vec) ==
    Vector(RAdd(RMul(self.a, vec.x), RMul(self.c, vec.y)),
           RAdd(RMul(self.b, vec.x), RMul(self.d, vec.y)))

\* reduce(lambda acc, a: product(a, acc), reversed(affines), identity)
RECURSIVE compose_fold(_, _, _)
compose_fold(affines, i, acc) ==
    IF i = 0 THEN acc
    ELSE Only([next_acc \in {product(affines[i], acc)} |-> compose_fold(affines, i - 1, next_acc)])

compose_ltr(affines) == Only([seq \in {affines} |-> compose_fold(seq, Len(seq), identity)])

\* parse_svg_transform(raw_transform): a transform attribute is the sequence
\* of the calls its text holds, [op |-> name, args |-> numbers]; the numbers
\* of the model's documents are read exactly, and none is a rotate or a skew
apply_transform_op(transform, call) ==
    IF call.op = "matrix"
    THEN matrix(transform, Affine2D(call.args[1], call.args[2], call.args[3],
                                    call.args[4], call.args[5], call.args[6]))
    ELSE IF call.op = "translate"
    THEN translate(transform, call.args[1], IF Len(call.args) > 1 THEN call.args[2] ELSE Zero)
    ELSE scale(transform, call.args[1], IF Len(call.args) > 1 THEN call.args[2] ELSE call.args[1])

RECURSIVE parse_svg_transform_from(_, _, _)
parse_svg_transform_from(raw_transform, i, transform) ==
    IF i > Len(raw_transform) THEN transform
    ELSE Only([t \in {apply_transform_op(transform, raw_transform[i])} |->
              parse_svg_transform_from(raw_transform, i + 1, t)])

parse_svg_transform(raw_transform) == parse_svg_transform_from(raw_transform, 1, identity)

(***************************************************************************)
(* svg_meta.py: the path command tables.  A command is a record            *)
(* [cmd |-> letter, args |-> sequence of numbers]; argument positions are  *)
(* 1-based here and 0-based in the source.                                 *)
(***************************************************************************)
LowerCmds == <<"m", "z", "l", "h", "v", "c", "s", "q", "t", "a">>
UpperCmds == <<"M", "Z", "L", "H", "V", "C", "S", "Q", "T", "A">>

CmdIndex(cmd) == CHOOSE i \in 1..10 : LowerCmds[i] = cmd \/ UpperCmds[i] = cmd
islower(cmd) == \E i \in 1..10 : LowerCmds[i] = cmd
isupper(cmd) == \E i \in 1..10 : UpperCmds[i] = cmd
upper(cmd) == UpperCmds[CmdIndex(cmd)]
lower(cmd) == LowerCmds[CmdIndex(cmd)]

_CMD_ARGS == [m |-> 2, z |-> 0, l |-> 2, h |-> 1, v |-> 1, c |-> 6, s |-> 4, q |-> 4, t |-> 2, a |-> 7]

num_args(cmd) == _CMD_ARGS[lower(cmd)]

\* TRUE where check_cmd returns, FALSE where it raises ValueError
check_cmd(cmd, args) ==
    IF num_args(cmd) = 0 THEN Len(args) = 0
    ELSE Len(args) % num_args(cmd) = 0

_CMD_COORDS ==
    [m |-> <<<<1>>, <<2>>>>,
     z |-> <<<<>>, <<>>>>,
     l |-> <<<<1>>, <<2>>>>,
     h |-> <<<<1>>, <<>>>>,
     v |-> <<<<>>, <<1>>>>,
     c |-> <<<<1, 3, 5>>, <<2, 4, 6>>>>,
     s |-> <<<<1, 3>>, <<2, 4>>>>,
     q |-> <<<<1, 3>>, <<2, 4>>>>,
     t |-> <<<<1>>, <<2>>>>,
     a |-> <<<<6>>, <<7>>>>]

cmd_coords(cmd) == _CMD_COORDS[lower(cmd)]

Cmd(cmd, args) == [cmd |-> cmd, args |-> args]

InSeq(x, s) == \E i \in 1..Len(s) : s[i] = x

(***************************************************************************)
(* svg_types.py: the walk callbacks.                                       *)
(***************************************************************************)
_explicit_lines_callback(curr_pos, cmd, args) ==
    IF cmd = "v" THEN <<Cmd("l", <<Zero, args[1]>>)>>
    ELSE IF cmd = "V" THEN <<Cmd("L", <<curr_pos.x, args[1]>>)>>
    ELSE IF cmd = "h" THEN <<Cmd("l", <<args[1], Zero>>)>>
    ELSE IF cmd = "H" THEN <<Cmd("L", <<args[1], curr_pos.y>>)>>
    ELSE <<Cmd(cmd, args)>>

\* cmd_converter is upper() when to_upper, lower() otherwise; coord_converter is
\* the identity when to_upper and negation otherwise.
_rewrite_coords(to_upper, curr_pos, cmd, args) ==
    LET x_coord_idxs == cmd_coords(cmd)[1]
        y_coord_idxs == cmd_coords(cmd)[2]
        desired_cmd == IF to_upper THEN upper(cmd) ELSE lower(cmd)
        conv(v) == IF to_upper THEN v ELSE RNeg(v)
    IN  IF cmd # desired_cmd
        THEN Cmd(desired_cmd,
                 [i \in 1..Len(args) |->
                     IF InSeq(i, x_coord_idxs) THEN RAdd(args[i], conv(curr_pos.x))
                     ELSE IF InSeq(i, y_coord_idxs) THEN RAdd(args[i], conv(curr_pos.y))
                     ELSE args[i]])
        ELSE Cmd(cmd, args)

_relative_to_absolute(curr_pos, cmd, args) == _rewrite_coords(TRUE, curr_pos, cmd, args)
_absolute_to_relative(curr_pos, cmd, args) == _rewrite_coords(FALSE, curr_pos, cmd, args)

_next_pos(curr_pos, cmd, cmd_args) ==
    Only([x_coord_idxs \in {cmd_coords(cmd)[1]} |->
    Only([y_coord_idxs \in {cmd_coords(cmd)[2]} |->
        LET base_x == IF isupper(cmd) /\ Len(x_coord_idxs) > 0 THEN Zero ELSE curr_pos.x
            base_y == IF isupper(cmd) /\ Len(y_coord_idxs) > 0 THEN Zero ELSE curr_pos.y
            new_x == IF Len(x_coord_idxs) > 0
                     THEN RAdd(base_x, cmd_args[x_coord_idxs[Len(x_coord_idxs)]])
                     ELSE base_x
            new_y == IF Len(y_coord_idxs) > 0
                     THEN RAdd(base_y, cmd_args[y_coord_idxs[Len(y_coord_idxs)]])
                     ELSE base_y
        IN  Point(new_x, new_y)])])

_move_endpoint(curr_pos, cmd, cmd_args, new_endpoint) ==
    Only([explicit \in {_explicit_lines_callback(curr_pos, cmd, cmd_args)[1]} |->
        LET x_coord_idxs == cmd_coords(explicit.cmd)[1]
            y_coord_idxs == cmd_coords(explicit.cmd)[2]
            new_x == IF islower(explicit.cmd) THEN RSub(new_endpoint.x, curr_pos.x)
                     ELSE new_endpoint.x
            new_y == IF islower(explicit.cmd) THEN RSub(new_endpoint.y, curr_pos.y)
                     ELSE new_endpoint.y
        IN  IF Len(x_coord_idxs) > 0 \/ Len(y_coord_idxs) > 0
            THEN Cmd(explicit.cmd,
                     [i \in 1..Len(explicit.args) |->
                         IF i = x_coord_idxs[Len(x_coord_idxs)] THEN new_x
                         ELSE IF i = y_coord_idxs[Len(y_coord_idxs)] THEN new_y
                         ELSE explicit.args[i]])
            ELSE explicit])

\* A plausible slip: the rewrite without the snap to the subpath start.
rewrite_callback_no_snap(to_upper, subpath_start, curr_pos, cmd, args) ==
    <<_rewrite_coords(to_upper, curr_pos, cmd, args)>>

\* _rewrite_path's rewrite_callback, rewrite_fn being _relative_to_absolute
\* (to_upper) or _absolute_to_relative
rewrite_callback(to_upper, subpath_start, curr_pos, cmd, args) ==
    Only([new \in {_rewrite_coords(to_upper, curr_pos, cmd, args)} |->
    Only([next_pos \in {_next_pos(curr_pos, new.cmd, new.args)} |->
        IF next_pos # subpath_start
           /\ Point_almost_equals(next_pos, subpath_start, DEFAULT_ALMOST_EQUAL_TOLERANCE)
        THEN <<_move_endpoint(curr_pos, new.cmd, new.args, subpath_start)>>
        ELSE <<new>>])])

\* prev is the last entry of new_cmds, or NoPrev ((None, None, None))
NoPrev == [prev_pos |-> Point(Zero, Zero), cmd |-> "", args |-> <<>>]

expand_shorthand_callback(curr_pos, cmd, args, prev) ==
    IF upper(cmd) \notin {"S", "T"} THEN <<Cmd(cmd, args)>>
    ELSE Only([abs \in {IF islower(cmd) THEN _relative_to_absolute(curr_pos, cmd, args)
                        ELSE Cmd(cmd, args)} |->
         Only([prev_abs \in {IF prev.cmd # "" /\ islower(prev.cmd)
                             THEN _relative_to_absolute(prev.prev_pos, prev.cmd, prev.args)
                             ELSE Cmd(prev.cmd, prev.args)} |->
             LET n == Len(prev_abs.args)
                 new_cp == IF prev.cmd # "" /\ prev_abs.cmd \in {"C", "Q"}
                           THEN <<RSub(RMul(Rat(2), curr_pos.x), prev_abs.args[n - 3]),
                                  RSub(RMul(Rat(2), curr_pos.y), prev_abs.args[n - 2])>>
                           ELSE <<curr_pos.x, curr_pos.y>>
             IN  <<Cmd(IF abs.cmd = "S" THEN "C" ELSE "Q", new_cp \o abs.args)>>])])

\* svg_reuse.py: _affine_callback, the coordinates of an affine-friendly path
\* mapped by affine: absolute pairs by map_point, relative pairs by map_vector,
\* results within the default tolerance of 0 set to 0.  The assert
\* len(x_coord_idxs) == len(y_coord_idxs) holds for every command but h and v.
_affine_callback(affine, cmd, args) ==
    LET x_coord_idxs == cmd_coords(cmd)[1]
        y_coord_idxs == cmd_coords(cmd)[2]
        mapped(k) ==
            Only([pt \in {Point(args[x_coord_idxs[k]], args[y_coord_idxs[k]])} |->
            Only([new \in {IF cmd = upper(cmd) THEN map_point(affine, pt)
                           ELSE map_vector(affine, pt)} |->
                Point(IF almost_equal(new.x, Zero, DEFAULT_ALMOST_EQUAL_TOLERANCE)
                      THEN Zero ELSE new.x,
                      IF almost_equal(new.y, Zero, DEFAULT_ALMOST_EQUAL_TOLERANCE)
                      THEN Zero ELSE new.y)])])
    IN  <<Cmd(cmd,
              [i \in 1..Len(args) |->
                  IF \E k \in 1..Len(x_coord_idxs) : x_coord_idxs[k] = i
                  THEN mapped(CHOOSE k \in 1..Len(x_coord_idxs) : x_coord_idxs[k] = i).x
                  ELSE IF \E k \in 1..Len(y_coord_idxs) : y_coord_idxs[k] = i
                  THEN mapped(CHOOSE k \in 1..Len(y_coord_idxs) : y_coord_idxs[k] = i).y
                  ELSE args[i]])>>

\* A callback handed to walk: its name and, for _affine_callback, the affine
\* the lambda closes over.
Callback(name) == [name |-> name, affine |-> identity]
AffineCallback(affine) == [name |-> "_affine_callback", affine |-> affine]

callback(cb, subpath_start, curr_pos, cmd, args, prev) ==
    CASE cb.name = "absolute" -> rewrite_callback(TRUE, subpath_start, curr_pos, cmd, args)
      [] cb.name = "relative" -> rewrite_callback(FALSE, subpath_start, curr_pos, cmd, args)
      [] cb.name = "explicit_lines" -> _explicit_lines_callback(curr_pos, cmd, args)
      [] cb.name = "expand_shorthand" -> expand_shorthand_callback(curr_pos, cmd, args, prev)
      [] cb.name = "_affine_callback" -> _affine_callback(cb.affine, cmd, args)

(***************************************************************************)
(* svg_types.py: SVGPath.walk.  The walker's locals are the record         *)
(* [curr_pos, subpath_start_pos, new_cmds], new_cmds holding               *)
(* (prev_pos, cmd, args) entries.                                          *)
(***************************************************************************)
WalkStart ==
    [curr_pos |-> Point(Zero, Zero),
     subpath_start_pos |-> Point(Zero, Zero),
     new_cmds |-> <<>>]

\* A plausible slip: a close that leaves the current position where it is.
RECURSIVE walk_emit_close_stays(_, _, _)
walk_emit_close_stays(st, outs, k) ==
    IF k > Len(outs) THEN st
    ELSE LET new == outs[k]
             next_pos == _next_pos(st.curr_pos, new.cmd, new.args)
         IN  walk_emit_close_stays(
                 [curr_pos |-> next_pos,
                  subpath_start_pos |-> IF upper(new.cmd) = "M" THEN next_pos
                                        ELSE st.subpath_start_pos,
                  new_cmds |-> Append(st.new_cmds,
                                      [prev_pos |-> st.curr_pos, cmd |-> new.cmd,
                                       args |-> new.args])],
                 outs, k + 1)

\* the inner loop: the commands the callback returned, from the k-th on
RECURSIVE walk_emit(_, _, _)
walk_emit(st, outs, k) ==
    IF k > Len(outs) THEN st
    ELSE Only([new \in {outs[k]} |->
         Only([next_pos \in {IF lower(new.cmd) # "z"
                             THEN _next_pos(st.curr_pos, new.cmd, new.args)
                             ELSE st.subpath_start_pos} |->
             walk_emit(
                 [curr_pos |-> next_pos,
                  subpath_start_pos |-> IF upper(new.cmd) = "M" THEN next_pos
                                        ELSE st.subpath_start_pos,
                  new_cmds |-> Append(st.new_cmds,
                                      [prev_pos |-> st.curr_pos, cmd |-> new.cmd,
                                       args |-> new.args])],
                 outs, k + 1)])])

\* the outer loop: the exploded commands of d, from the idx-th on
RECURSIVE walk_from(_, _, _, _)
walk_from(d, cb, idx, st) ==
    IF idx > Len(d) THEN st
    ELSE LET cmd == IF idx = 1 /\ d[idx].cmd = "m" THEN "M" ELSE d[idx].cmd
             prev == IF Len(st.new_cmds) > 0 THEN st.new_cmds[Len(st.new_cmds)]
                     ELSE NoPrev
         IN  Only([next_st \in {walk_emit(st,
                           callback(cb, st.subpath_start_pos, st.curr_pos, cmd,
                                    d[idx].args, prev),
                           1)} |->
                  walk_from(d, cb, idx + 1, next_st)])

walk(d, cb) == Only([in \in {<<d, cb>>} |-> walk_from(in[1], in[2], 1, WalkStart)])

\* self.d after the walk: the new commands, in order
walk_d(st) == [i \in 1..Len(st.new_cmds) |-> Cmd(st.new_cmds[i].cmd, st.new_cmds[i].args)]

absolute(d) == walk_d(walk(d, Callback("absolute")))
relative(d) == walk_d(walk(d, Callback("relative")))
explicit_lines(d) == walk_d(walk(d, Callback("explicit_lines")))
expand_shorthand(d) == walk_d(walk(d, Callback("expand_shorthand")))

(***************************************************************************)
(* Text.  A string is modelled as the sequence of its characters.  A       *)
(* Python float is modelled here as a decimal [sign, m, e] of value        *)
(* sign * m * 10^e, m not divisible by 10 (m = 0, e = 0, sign = 1 for      *)
(* zero), or as Inf(sign): float() and repr() of a decimal literal of at   *)
(* most 15 significant digits agree with this on every value outside the   *)
(* subnormal range.  The flags int() returns are written as the same       *)
(* decimals (1 == 1.0 in Python, and ntos writes both as "1").             *)
(***************************************************************************)
Digits == <<"0", "1", "2", "3", "4", "5", "6", "7", "8", "9">>
IsDigit(ch) == \E i \in 1..10 : Digits[i] = ch
DigitVal(ch) == (CHOOSE i \in 1..10 : Digits[i] = ch) - 1

Dec(sign, m, e) == [inf |-> FALSE, sign |-> sign, m |-> m, e |-> e]
Inf(sign) == [inf |-> TRUE, sign |-> sign, m |-> 0, e |-> 0]
DecZero == Dec(1, 0, 0)

\* the first index at or after p that holds no digit
RECURSIVE DigitsEnd(_, _)
DigitsEnd(a, p) == IF p <= Len(a) /\ IsDigit(a[p]) THEN DigitsEnd(a, p + 1) ELSE p

\* the number of characters _FLOAT_RE.match(a) consumes, 0 when it does not match
FloatMatch(a) ==
    LET n == Len(a)
        p0 == IF n >= 1 /\ a[1] \in {"-", "+"} THEN 2 ELSE 1
        int_end == IF p0 <= n /\ a[p0] = "0" THEN p0 + 1
                   ELSE IF p0 <= n /\ IsDigit(a[p0]) THEN DigitsEnd(a, p0 + 1)
                   ELSE 0
        frac_end(p) == IF p + 1 <= n /\ a[p] = "." /\ IsDigit(a[p + 1])
                       THEN DigitsEnd(a, p + 1) ELSE p
        mant_end == IF int_end # 0 THEN frac_end(int_end)
                    ELSE IF p0 + 1 <= n /\ a[p0] = "." /\ IsDigit(a[p0 + 1])
                         THEN DigitsEnd(a, p0 + 1)
                    ELSE 0
        exp_digits(p) == IF p + 1 <= n /\ a[p + 1] \in {"-", "+"} THEN p + 2 ELSE p + 1
        exp_end(p) == IF p <= n /\ a[p] \in {"e", "E"}
                         /\ exp_digits(p) <= n /\ IsDigit(a[exp_digits(p)])
                      THEN DigitsEnd(a, exp_digits(p)) ELSE p
    IN  IF mant_end = 0 THEN 0 ELSE exp_end(mant_end) - 1

\* the number of characters _BOOL_RE.match(a) consumes, 0 when it does not match
BoolMatch(a) == IF Len(a) >= 1 /\ a[1] \in {"0", "1"} THEN 1 ELSE 0

\* the value of a run of digits
RECURSIVE DigitsVal(_)
DigitsVal(ds) ==
    IF Len(ds) = 0 THEN 0
    ELSE 10 * DigitsVal(SubSeq(ds, 1, Len(ds) - 1)) + DigitVal(ds[Len(ds)])

RECURSIVE StripLeadingZeros(_)
StripLeadingZeros(ds) ==
    IF Len(ds) > 0 /\ ds[1] = "0" THEN StripLeadingZeros(Tail(ds)) ELSE ds

RECURSIVE TrailingZeros(_)
TrailingZeros(ds) ==
    IF Len(ds) > 0 /\ ds[Len(ds)] = "0"
    THEN 1 + TrailingZeros(SubSeq(ds, 1, Len(ds) - 1)) ELSE 0

RECURSIVE NumDigits(_)
NumDigits(m) == IF m < 10 THEN 1 ELSE 1 + NumDigits(m \div 10)

RECURSIVE Pow10(_)
Pow10(k) == IF k = 0 THEN 1 ELSE 10 * Pow10(k - 1)

\* IEEE double range: a decimal of scientific exponent x overflows to inf above
\* 1.7976931348623157e308 and rounds to zero below 2.5e-324
ToDouble(sign, m, e) ==
    LET x == NumDigits(m) - 1 + e
        lead3 == IF NumDigits(m) <= 3 THEN m * Pow10(3 - NumDigits(m))
                 ELSE m \div Pow10(NumDigits(m) - 3)
    IN  IF m = 0 THEN DecZero
        ELSE IF x > 308 \/ (x = 308 /\ lead3 > 179) THEN Inf(sign)
        ELSE IF x < -324 THEN DecZero
        ELSE Dec(sign, m, e)

\* float(a) for a literal a that _FLOAT_RE matched whole
float(a) ==
    LET n == Len(a)
        sign == IF a[1] = "-" THEN -1 ELSE 1
        p0 == IF a[1] \in {"-", "+"} THEN 2 ELSE 1
    IN  Only([int_end \in {DigitsEnd(a, p0)} |->
        Only([frac_end \in {IF int_end <= n /\ a[int_end] = "." THEN DigitsEnd(a, int_end + 1)
                            ELSE int_end} |->
        Only([all_digits \in {SubSeq(a, p0, int_end - 1) \o SubSeq(a, int_end + 1, frac_end - 1)} |->
        Only([tz \in {TrailingZeros(all_digits)} |->
        Only([sig \in {StripLeadingZeros(SubSeq(all_digits, 1, Len(all_digits) - tz))} |->
            LET frac_digits == SubSeq(a, int_end + 1, frac_end - 1)
                exp_sign == IF frac_end + 1 <= n /\ a[frac_end + 1] = "-" THEN -1 ELSE 1
                exp_from == IF frac_end + 1 <= n /\ a[frac_end + 1] \in {"-", "+"}
                            THEN frac_end + 2 ELSE frac_end + 1
                exp == IF frac_end <= n THEN exp_sign * DigitsVal(SubSeq(a, exp_from, n)) ELSE 0
            IN  IF Len(sig) = 0 THEN DecZero
                ELSE ToDouble(sign, DigitsVal(sig), exp - Len(frac_digits) + tz)])])])])])

\* int(a) for a flag a that _BOOL_RE matched
int(a) == Dec(1, DigitVal(a[1]), 0)

\* str(m) for a natural number m
RECURSIVE NatStr(_)
NatStr(m) == IF m < 10 THEN <<Digits[m + 1]>> ELSE NatStr(m \div 10) \o <<Digits[(m % 10) + 1]>>

RECURSIVE Zeros(_)
Zeros(k) == IF k <= 0 THEN <<>> ELSE <<"0">> \o Zeros(k - 1)

SignStr(sign) == IF sign < 0 THEN <<"-">> ELSE <<>>

\* repr(n) of a float n that is not an integer: positional for a scientific
\* exponent in -4..15, d[.ddd]e-XX otherwise
float_repr(v) ==
    LET ds == NatStr(v.m)
        nd == Len(ds)
        x == nd - 1 + v.e
        ax == IF x < 0 THEN -x ELSE x
    IN  IF v.inf THEN SignStr(v.sign) \o <<"i", "n", "f">>
        ELSE IF x >= 0 /\ x < 16
        THEN SignStr(v.sign) \o SubSeq(ds, 1, x + 1) \o <<".">> \o SubSeq(ds, x + 2, nd)
        ELSE IF x < 0 /\ x >= -4
        THEN SignStr(v.sign) \o <<"0", ".">> \o Zeros(-x - 1) \o ds
        ELSE SignStr(v.sign) \o <<ds[1]>>
             \o (IF nd > 1 THEN <<".">> \o SubSeq(ds, 2, nd) ELSE <<>>)
             \o <<"e">> \o (IF x < 0 THEN <<"-">> ELSE <<"+">>)
             \o (IF ax < 10 THEN <<"0">> ELSE <<>>) \o NatStr(ax)

\* str(int(n)) if n.is_integer() else str(n)
ntos(v) ==
    IF ~v.inf /\ v.e >= 0
    THEN (IF v.m = 0 THEN <<>> ELSE SignStr(v.sign)) \o NatStr(v.m) \o Zeros(v.e)
    ELSE float_repr(v)

RECURSIVE Join(_, _)
Join(strs, sep) ==
    IF Len(strs) = 0 THEN <<>>
    ELSE IF Len(strs) = 1 THEN strs[1]
    ELSE strs[1] \o sep \o Join(Tail(strs), sep)

\* the pieces of one repetition of a command's arguments: "x,y" for a coordinate
\* pair, the argument alone otherwise (sub_args are strings, i is 0-based)
RECURSIVE combine_sub_args(_, _, _)
combine_sub_args(cmd, sub_args, i) ==
    IF i >= Len(sub_args) THEN <<>>
    ELSE IF \E k \in 1..Len(cmd_coords(cmd)[1]) :
                /\ k <= Len(cmd_coords(cmd)[2])
                /\ cmd_coords(cmd)[1][k] = i + 1
                /\ cmd_coords(cmd)[2][k] = i + 2
    THEN <<sub_args[i + 1] \o <<",">> \o sub_args[i + 2]>> \o combine_sub_args(cmd, sub_args, i + 2)
    ELSE <<sub_args[i + 1]>> \o combine_sub_args(cmd, sub_args, i + 1)

RECURSIVE combine_args(_, _, _)
combine_args(cmd, strs, n) ==
    IF n * num_args(cmd) >= Len(strs) THEN <<>>
    ELSE combine_sub_args(cmd, SubSeq(strs, n * num_args(cmd) + 1, (n + 1) * num_args(cmd)), 0)
         \o combine_args(cmd, strs, n + 1)

\* path_segment(cmd, *args), for args check_cmd accepts
path_segment(cmd, args) ==
    LET strs == [i \in 1..Len(args) |-> ntos(args[i])]
    IN  <<cmd>> \o (IF num_args(cmd) > 0 THEN Join(combine_args(cmd, strs, 0), <<" ">>)
                    ELSE <<>>)

\* SVGPath.from_commands(svg_cmds).d: the segments, a space between them
RECURSIVE from_commands(_)
from_commands(svg_cmds) ==
    IF Len(svg_cmds) = 0 THEN <<>>
    ELSE LET d == from_commands(SubSeq(svg_cmds, 1, Len(svg_cmds) - 1))
             seg == path_segment(svg_cmds[Len(svg_cmds)].cmd, svg_cmds[Len(svg_cmds)].args)
         IN  IF Len(d) > 0 THEN d \o <<" ">> \o seg ELSE seg

(***************************************************************************)
(* svg_path_iter.py: parse_svg_path.  A parse result is                    *)
(* [ok |-> BOOLEAN, cmds |-> commands]; ok = FALSE stands for ValueError.  *)
(***************************************************************************)
IsCmdChar(ch) == islower(ch) \/ isupper(ch)

\* s.strip(), the only whitespace of the model being the space
RECURSIVE strip(_)
strip(s) ==
    IF Len(s) > 0 /\ s[1] = " " THEN strip(Tail(s))
    ELSE IF Len(s) > 0 /\ s[Len(s)] = " " THEN strip(SubSeq(s, 1, Len(s) - 1))
    ELSE s

\* _CMD_RE.split(svg_path)[1:], as (cmd, text after it) pairs: the text before
\* the first command letter is dropped
RECURSIVE split_cmds(_, _, _)
split_cmds(svg_path, p, parts) ==
    IF p > Len(svg_path) THEN parts
    ELSE IF IsCmdChar(svg_path[p])
    THEN split_cmds(svg_path, p + 1, Append(parts, [cmd |-> svg_path[p], raw |-> <<>>]))
    ELSE IF Len(parts) = 0 THEN split_cmds(svg_path, p + 1, parts)
    ELSE split_cmds(svg_path, p + 1,
                    [parts EXCEPT ![Len(parts)].raw = Append(@, svg_path[p])])

\* [s for s in _SEPARATOR_RE.split(args) if s]
RECURSIVE split_separators(_, _, _, _)
split_separators(args, p, cur, out) ==
    IF p > Len(args) THEN (IF Len(cur) > 0 THEN Append(out, cur) ELSE out)
    ELSE IF args[p] \in {",", " "}
    THEN split_separators(args, p + 1, <<>>, IF Len(cur) > 0 THEN Append(out, cur) ELSE out)
    ELSE split_separators(args, p + 1, Append(cur, args[p]), out)

\* the while loop of _parse_args: i counts the values read, j the raw_args
\* consumed (1-based here), a partly matched raw argument being put back
RECURSIVE _parse_args_loop(_, _, _, _, _)
_parse_args_loop(cmd, raw_args, i, j, out) ==
    IF j > Len(raw_args) THEN [ok |-> TRUE, args |-> out]
    ELSE LET arg == raw_args[j]
             is_flag == upper(cmd) = "A" /\ (i % 7) \in {3, 4}
             end == IF is_flag THEN BoolMatch(arg) ELSE FloatMatch(arg)
             value == IF is_flag THEN int(SubSeq(arg, 1, end)) ELSE float(SubSeq(arg, 1, end))
         IN  IF end = 0 THEN [ok |-> FALSE, args |-> out]
             ELSE IF end < Len(arg)
             THEN _parse_args_loop(cmd, [raw_args EXCEPT ![j] = SubSeq(arg, end + 1, Len(arg))],
                                   i + 1, j, Append(out, value))
             ELSE _parse_args_loop(cmd, raw_args, i + 1, j + 1, Append(out, value))

_parse_args(cmd, args) == _parse_args_loop(cmd, split_separators(args, 1, <<>>, <<>>), 0, 1, <<>>)

_IMPLICIT_REPEAT_CMD(cmd) == IF cmd = "m" THEN "l" ELSE IF cmd = "M" THEN "L" ELSE cmd

\* _explode_cmd with line 81 left out: every command keeps the written letter
RECURSIVE _explode_cmd_written_letter(_, _, _, _)
_explode_cmd_written_letter(args_per_cmd, cmd, args, i) ==
    IF i >= Len(args) \div args_per_cmd THEN <<>>
    ELSE <<Cmd(cmd, SubSeq(args, i * args_per_cmd + 1, (i + 1) * args_per_cmd))>>
         \o _explode_cmd_written_letter(args_per_cmd, cmd, args, i + 1)

RECURSIVE _explode_cmd(_, _, _, _)
_explode_cmd(args_per_cmd, cmd, args, i) ==
    IF i >= Len(args) \div args_per_cmd THEN <<>>
    ELSE <<Cmd(IF i > 0 THEN _IMPLICIT_REPEAT_CMD(cmd) ELSE cmd,
               SubSeq(args, i * args_per_cmd + 1, (i + 1) * args_per_cmd))>>
         \o _explode_cmd(args_per_cmd, cmd, args, i + 1)

RECURSIVE parse_parts(_, _, _, _)
parse_parts(parts, k, exploded, command_tuples) ==
    IF k > Len(parts) THEN [ok |-> TRUE, cmds |-> command_tuples]
    ELSE LET cmd == parts[k].cmd
             parsed == _parse_args(cmd, strip(parts[k].raw))
             args_per_cmd == num_args(cmd)
         IN  IF ~parsed.ok \/ ~check_cmd(cmd, parsed.args)
             THEN [ok |-> FALSE, cmds |-> <<>>]
             ELSE IF args_per_cmd = 0 \/ ~exploded
             THEN parse_parts(parts, k + 1, exploded,
                              Append(command_tuples, Cmd(cmd, parsed.args)))
             ELSE parse_parts(parts, k + 1, exploded,
                              command_tuples \o _explode_cmd(args_per_cmd, cmd, parsed.args, 0))

parse_svg_path(svg_path, exploded) ==
    parse_parts(split_cmds(svg_path, 1, <<>>), 1, exploded, <<>>)

(***************************************************************************)
(* svg_types.py: SVGShape.almost_equals, over the commands of the two      *)
(* paths (zip_longest: paths of different lengths differ).                 *)
(***************************************************************************)
almost_equals(self, other, tolerance) ==
    /\ Len(self) = Len(other)
    /\ \A i \in 1..Len(self) :
        /\ self[i].cmd = other[i].cmd
        /\ Len(self[i].args) = Len(other[i].args)
        /\ \A k \in 1..Len(self[i].args) :
            ~RLt(tolerance, RAbs(RSub(self[i].args[k], other[i].args[k])))

(***************************************************************************)
(* svg_transform.py: Affine2D.round.  round(v, digits) rounds to the       *)
(* nearest multiple of 10^-digits, ties to even.                           *)
(***************************************************************************)
round(v, digits) ==
    LET scale10 == Pow10(digits)
        num == v[1] * scale10
        fl == num \div v[2]
        rem2 == 2 * (num % v[2])
        up == rem2 > v[2] \/ (rem2 = v[2] /\ fl % 2 = 1)
    IN  Norm(IF up THEN fl + 1 ELSE fl, scale10)

Affine2D_round(self, digits) ==
    Affine2D(round(self.a, digits), round(self.b, digits), round(self.c, digits),
             round(self.d, digits), round(self.e, digits), round(self.f, digits))

(***************************************************************************)
(* svg_reuse.py                                                            *)
(***************************************************************************)
_SIGNIFICANCE_FACTOR == 5

\* _ROUND_RANGE is range(3, 13) in the source; the model tries the digits
\* 3..MaxRoundDigits
MaxRoundDigits == 5
_ROUND_RANGE == 3..MaxRoundDigits

\* every path of the model starts with a move (otherwise _first_move raises)
_first_move(path) == Point(path[1].args[1], path[1].args[2])

_vectors(path) ==
    [i \in 1..Len(path) |->
        IF lower(path[i].cmd) = "z" THEN Vector(Zero, Zero)
        ELSE LET x_coord_idxs == cmd_coords(path[i].cmd)[1]
                 y_coord_idxs == cmd_coords(path[i].cmd)[2]
             IN  Vector(path[i].args[x_coord_idxs[Len(x_coord_idxs)]],
                        path[i].args[y_coord_idxs[Len(y_coord_idxs)]])]

\* n is 0-based, as in the source
_nth_vector(path, n) == _vectors(path)[n + 1]

\* val_fn is lambda v: v.x or lambda v: v.y, named "x" or "y"
val_fn(name, v) == IF name = "x" THEN v.x ELSE v.y

\* the (0-based) index of the first vector after the initial move whose value is
\* significant, -1 if there is none
_first_significant(vectors, name, tolerance) ==
    LET tol == RMul(Rat(_SIGNIFICANCE_FACTOR), tolerance)
        hits == {i \in 2..Len(vectors) : RLt(tol, RAbs(val_fn(name, vectors[i])))}
    IN  IF hits = {} THEN -1
        ELSE (CHOOSE i \in hits : \A j \in hits : i <= j) - 1

_first_significant_for_both(s1, s2, name, tolerance) ==
    LET tol == RMul(Rat(_SIGNIFICANCE_FACTOR), tolerance)
        v1 == _vectors(s1)
        v2 == _vectors(s2)
        n == IF Len(v1) < Len(v2) THEN Len(v1) ELSE Len(v2)
        hits == {i \in 2..n : /\ RLt(tol, RAbs(val_fn(name, v1[i])))
                              /\ RLt(tol, RAbs(val_fn(name, v2[i])))}
    IN  IF hits = {} THEN -1
        ELSE (CHOOSE i \in hits : \A j \in hits : i <= j) - 1

\* the exact square root of a rational that has one
Sqrt(v) ==
    LET root(n) == CHOOSE r \in 0..n : r * r = n
    IN  <<root(v[1]), root(v[2])>>

norm(v) == Sqrt(RAdd(RMul(v.x, v.x), RMul(v.y, v.y)))

\* Affine2D.identity().rotate(sign * atan2(v.y, v.x)): cos and sin of the angle
\* of v are v.x / norm and v.y / norm; atan2(0, 0) is 0
rotate_by_angle_of(v, sign) ==
    IF v.x = Zero /\ v.y = Zero THEN identity
    ELSE Only([t \in {<<v.x, v.y, norm(v)>>} |->
              rotate(identity, RDiv(t[1], t[3]), RMul(Rat(sign), RDiv(t[2], t[3])),
                               Zero, Zero)])

\* rotate(angle(target) - angle(initial)) composed with scale(s, s),
\* s = |target| / |initial|: the matrix of the complex quotient target / initial;
\* s is 0 when initial has norm 0
vec2vec_matrix(ix, iy, tx, ty) ==
    LET n2 == RAdd(RMul(ix, ix), RMul(iy, iy))
        re == RDiv(RAdd(RMul(tx, ix), RMul(ty, iy)), n2)
        im == RDiv(RSub(RMul(ty, ix), RMul(tx, iy)), n2)
    IN  IF n2 = Zero THEN Affine2D(Zero, Zero, Zero, Zero, Zero, Zero)
        ELSE Affine2D(re, im, RNeg(im), re, Zero, Zero)

_affine_vec2vec(initial, target) ==
    Only([t \in {<<initial.x, initial.y, target.x, target.y>>} |->
         vec2vec_matrix(t[1], t[2], t[3], t[4])])

_affine_friendly(shape) == expand_shorthand(explicit_lines(relative(shape)))

_apply_affine(affine, s) == walk_d(walk(s, AffineCallback(affine)))

_try_affine(affine, s1, s2, tolerance) ==
    almost_equals(_apply_affine(affine, s1), s2, tolerance)

\* the first digits of _ROUND_RANGE whose rounding of affine passes, 0 if none
_round_digits(affine, s1, s2, tolerance) ==
    LET passing == {i \in _ROUND_RANGE : _try_affine(Affine2D_round(affine, i), s1, s2, tolerance)}
    IN  IF passing = {} THEN 0 ELSE CHOOSE i \in passing : \A j \in passing : i <= j

\* A plausible slip: the matrix rounded to the first precision, not tried.
_round_untried(affine, s1, s2, tolerance) == Affine2D_round(affine, 3)

_round(affine, s1, s2, tolerance) ==
    Only([digits \in {_round_digits(affine, s1, s2, tolerance)} |->
         IF digits = 0 THEN affine ELSE Affine2D_round(affine, digits)])

\* affine_between, cut at its return statements.  s1, s2 below are the
\* affine-friendly paths.
translation_affine(s1, s2) ==
    translate(identity, RSub(_first_move(s2).x, _first_move(s1).x),
              RSub(_first_move(s2).y, _first_move(s1).y))

s1_to_origin(s1) == translate(identity, RNeg(_first_move(s1).x), RNeg(_first_move(s1).y))
s2_to_origin(s2) == translate(identity, RNeg(_first_move(s2).x), RNeg(_first_move(s2).y))
origin_to_s2(s2) == translate(identity, _first_move(s2).x, _first_move(s2).y)

s2_vec1x_idx(s2, tolerance) == _first_significant(_vectors(s2), "x", tolerance)
s2_vec1x(s2, tolerance) == _nth_vector(s2, s2_vec1x_idx(s2, tolerance))
s1_vec1_to_s2_vec1x(s1, s2, tolerance) ==
    _affine_vec2vec(_nth_vector(s1, s2_vec1x_idx(s2, tolerance)), s2_vec1x(s2, tolerance))

rotate_scale_affine(s1, s2, tolerance) ==
    compose_ltr(<<s1_to_origin(s1), s1_vec1_to_s2_vec1x(s1, s2, tolerance), origin_to_s2(s2)>>)

rotate_s2vec1_onto_x(s2, tolerance) == rotate_by_angle_of(s2_vec1x(s2, tolerance), -1)
rotate_s2vec1_off_x(s2, tolerance) == rotate_by_angle_of(s2_vec1x(s2, tolerance), 1)

s1_prime(s1, s2, tolerance) ==
    _apply_affine(compose_ltr(<<s1_to_origin(s1), s1_vec1_to_s2_vec1x(s1, s2, tolerance),
                                rotate_s2vec1_onto_x(s2, tolerance)>>), s1)
s2_prime(s2, tolerance) ==
    _apply_affine(compose_ltr(<<s2_to_origin(s2), rotate_s2vec1_onto_x(s2, tolerance)>>), s2)

\* idx is what _first_significant_for_both returned for the two primes
non_uniform_affine(s1, s2, tolerance, primes, idx) ==
    compose_ltr(<<s1_to_origin(s1),
                  s1_vec1_to_s2_vec1x(s1, s2, tolerance),
                  rotate_s2vec1_onto_x(s2, tolerance),
                  scale(identity, One,
                        RDiv(_nth_vector(primes[2], idx).y, _nth_vector(primes[1], idx).y)),
                  rotate_s2vec1_off_x(s2, tolerance),
                  origin_to_s2(s2)>>)

\* What affine_between returns: found = FALSE is None.  via names the return
\* statement and unrounded the matrix handed to _round (both are bookkeeping
\* of the model).
Returned(affine, via, unrounded) ==
    [found |-> TRUE, affine |-> affine, via |-> via, unrounded |-> unrounded]
ReturnedNone(via) == [found |-> FALSE, affine |-> identity, via |-> via, unrounded |-> identity]

(***************************************************************************)
(* svg.py: the element tree.  An lxml document is a heap of elements:      *)
(* tree[n] is element n, its children are element numbers, and an element  *)
(* is in at most one children sequence (inserting an element moves it).    *)
(* An attrib is a function from attribute names to values: "opacity" and   *)
(* "x2" hold the characters of their text, "d" holds the commands its text *)
(* parses to, the others hold their text.                                  *)
(***************************************************************************)
Element(tag, attrib, children) == [tag |-> tag, attrib |-> attrib, children |-> children]

NoAttrib == [name \in {} |-> ""]
attrib_get(attrib, name, default) == IF name \in DOMAIN attrib THEN attrib[name] ELSE default
attrib_set(attrib, name, value) ==
    [n \in DOMAIN attrib \cup {name} |-> IF n = name THEN value ELSE attrib[n]]

_del_attrs(attrib, attr_names) == [n \in DOMAIN attrib \ attr_names |-> attrib[n]]

\* el.getparent(): 0 is None
getparent(tree, el) ==
    IF \E p \in 1..Len(tree) : InSeq(el, tree[p].children)
    THEN CHOOSE p \in 1..Len(tree) : InSeq(el, tree[p].children)
    ELSE 0

\* parent.index(el), counted from 0
index(tree, parent, el) == (CHOOSE i \in 1..Len(tree[parent].children) : tree[parent].children[i] = el) - 1

\* parent.remove(el)
remove(tree, parent, el) ==
    [tree EXCEPT ![parent].children = SelectSeq(@, LAMBDA c : c # el)]

_safe_remove(tree, el) ==
    IF getparent(tree, el) # 0 THEN remove(tree, getparent(tree, el), el) ELSE tree

\* parent.insert(idx, el): el leaves the parent it had
insert(tree, parent, idx, el) ==
    Only([t \in {_safe_remove(tree, el)} |->
        LET kids == t[parent].children
            at == IF idx > Len(kids) THEN Len(kids) ELSE idx
        IN  [t EXCEPT ![parent].children =
                SubSeq(kids, 1, at) \o <<el>> \o SubSeq(kids, at + 1, Len(kids))]])

RECURSIVE insert_all(_, _, _, _, _)
insert_all(tree, parent, idx, replacements, child_idx) ==
    IF child_idx > Len(replacements) THEN tree
    ELSE Only([t \in {insert(tree, parent, idx + child_idx - 1, replacements[child_idx])} |->
              insert_all(t, parent, idx, replacements, child_idx + 1)])

_replace_el(tree, el, replacements) ==
    LET parent == getparent(tree, el)
        idx == index(tree, parent, el)
    IN  insert_all(remove(tree, parent, el), parent, idx, replacements, 1)

\* etree.Element(...) / copy of a fresh element into the document
NewElement(tree, element) == Append(tree, element)

\* svg_root.iter("*"): the elements in document order
RECURSIVE iter(_, _)
RECURSIVE iter_children(_, _, _)
iter(tree, el) == <<el>> \o iter_children(tree, tree[el].children, 1)
iter_children(tree, children, i) ==
    IF i > Len(children) THEN <<>>
    ELSE iter(tree, children[i]) \o iter_children(tree, children, i + 1)

\* the document below el, without element numbers: what tostring() writes
RECURSIVE tostring(_, _)
tostring(tree, el) ==
    <<tree[el].tag, tree[el].attrib,
      [i \in 1..Len(tree[el].children) |-> tostring(tree, tree[el].children[i])]>>

_is_defs(tag) == tag = "defs"
_is_shape(tag) == tag = "path"
_is_gradient(tag) == tag \in {"linearGradient", "radialGradient"}
_is_group(tag) == tag = "g"

(***************************************************************************)
(* Floats of attribute text: float(text) is a decimal [sign, m, e].        *)
(***************************************************************************)
RECURSIVE DecNorm(_, _, _)
DecNorm(sign, m, e) ==
    IF m = 0 THEN DecZero
    ELSE IF m % 10 = 0 THEN DecNorm(sign, m \div 10, e + 1)
    ELSE Dec(sign, m, e)

DecOne == Dec(1, 1, 0)

\* a * b, exact
DecMul(a, b) == DecNorm(a.sign * b.sign, a.m * b.m, a.e + b.e)

\* a > 1.0
DecGtOne(a) ==
    /\ a.sign > 0
    /\ IF a.e >= 0 THEN a.m * Pow10(a.e) > 1 ELSE a.m > Pow10(-a.e)

\* round(a, ndigits), ties to even
DecRound(a, nd) ==
    IF a.e >= -nd THEN a
    ELSE LET k == Pow10(-a.e - nd)
             q == a.m \div k
             r2 == 2 * (a.m % k)
             up == r2 > k \/ (r2 = k /\ q % 2 = 1)
         IN  DecNorm(a.sign, IF up THEN q + 1 ELSE q, -nd)

_clamp(value) == IF value.sign < 0 THEN DecZero ELSE IF DecGtOne(value) THEN DecOne ELSE value

_opacity(el) ==
    _clamp(IF "opacity" \in DOMAIN el.attrib THEN float(el.attrib["opacity"]) ELSE DecOne)

(***************************************************************************)
(* svg_types.py / svg.py: the shape and gradient dataclasses and their     *)
(* elements.  Of SVGPath's fields the model keeps id, fill, opacity and d; *)
(* of SVGLinearGradient's, x2.                                             *)
(***************************************************************************)
SVGPath(id, fill, opacity, d) == [id |-> id, fill |-> fill, opacity |-> opacity, d |-> d]
SVGLinearGradient(x2) == [x2 |-> x2]

_SHAPE_FIELDS == {"id", "fill", "opacity", "d"}
_GRADIENT_FIELDS == {"x2"}

\* el.attrib.get(name, "").strip() is not empty
NonBlank(attrib, name) ==
    /\ name \in DOMAIN attrib
    /\ IF name \in {"opacity", "x2", "d"} THEN Len(attrib[name]) > 0 ELSE attrib[name] # ""

from_element(el) ==
    SVGPath(IF NonBlank(el.attrib, "id") THEN el.attrib["id"] ELSE "",
            IF NonBlank(el.attrib, "fill") THEN el.attrib["fill"] ELSE "black",
            IF NonBlank(el.attrib, "opacity") THEN float(el.attrib["opacity"]) ELSE DecOne,
            IF NonBlank(el.attrib, "d") THEN el.attrib["d"] ELSE <<>>)

\* fields equal to their default are omitted, numbers are written by ntos
to_element(data_obj) ==
    LET names == {n \in {"id"} : data_obj.id # ""}
                 \cup {n \in {"fill"} : data_obj.fill # "black"}
                 \cup {n \in {"opacity"} : data_obj.opacity # DecOne}
                 \cup {n \in {"d"} : data_obj.d # <<>>}
    IN  Element("path",
                [n \in names |-> IF n = "opacity" THEN ntos(data_obj.opacity) ELSE data_obj[n]],
                <<>>)

\* x2 defaults to 100% of the gradient units, a unit box
SVGLinearGradient_from_element(el) ==
    SVGLinearGradient(IF "x2" \in DOMAIN el.attrib THEN float(el.attrib["x2"]) ELSE DecOne)

gradient_to_element(gradient) ==
    [n \in {n \in {"x2"} : gradient.x2 # DecZero} |-> ntos(gradient.x2)]

(***************************************************************************)
(* svg.py: attribute inheritance.                                          *)
(***************************************************************************)
_ATTRIB_W_CUSTOM_INHERITANCE == {"clip-path", "transform"}

ATTRIB_DEFAULTS == [fill |-> "black", opacity |-> DecOne, d |-> <<>>, id |-> ""]

\* default_value == value, a float default being compared with float(value)
IsDefault(attr_name, value) ==
    /\ attr_name \in DOMAIN ATTRIB_DEFAULTS
    /\ ATTRIB_DEFAULTS[attr_name] = (IF attr_name = "opacity" THEN float(value) ELSE value)

_drop_default_attrib(attrib) ==
    [n \in {n \in DOMAIN attrib : ~IsDefault(n, attrib[n])} |-> attrib[n]]

_attr_supported(tag, attr_name) ==
    IF _is_shape(tag) THEN attr_name \in _SHAPE_FIELDS
    ELSE IF _is_gradient(tag) THEN attr_name \in _GRADIENT_FIELDS
    ELSE IF tag = "stop" THEN FALSE
    ELSE TRUE

_inherit_copy(attrib, child, attr_name) ==
    IF attr_name \in DOMAIN child THEN child
    ELSE attrib_set(child, attr_name, attrib[attr_name])

_inherit_multiply(attrib, child, attr_name) ==
    attrib_set(child, attr_name,
               ntos(DecMul(float(attrib[attr_name]),
                           IF attr_name \in DOMAIN child THEN float(child[attr_name])
                           ELSE DecOne)))

\* the attrib of child after the handlers ran: "id" is not inherited, and a
\* name without handler ("d", "x2") is left in the local copy, which only the
\* call of _attrib_to_pass_on with skip_unhandled=True is given
_inherit_attrib(attrib, child, tag, skips) ==
    Only([kept \in {_drop_default_attrib(attrib)} |->
    Only([handled \in {{n \in DOMAIN kept : n \notin skips /\ _attr_supported(tag, n)}} |->
    Only([copied \in {IF "fill" \in handled THEN _inherit_copy(kept, child, "fill") ELSE child} |->
        IF "opacity" \in handled THEN _inherit_multiply(kept, copied, "opacity") ELSE copied])])])

_attrib_to_pass_on(el, current_attrib) ==
    LET skips == _ATTRIB_W_CUSTOM_INHERITANCE
        own == _inherit_attrib(el.attrib, NoAttrib, "dummy", skips)
    IN  _inherit_attrib(current_attrib, own, "dummy", skips)

_INHERITABLE_ATTRIB == {"fill", "opacity"}

(***************************************************************************)
(* svg.py: group removal.                                                  *)
(***************************************************************************)
_is_removable_group(tree, el) ==
    /\ _is_group(tree[el].tag)
    /\ \/ DOMAIN tree[el].attrib = {}
       \/ Len(tree[el].children) <= 1
       \/ _opacity(tree[el]) \in {DecZero, DecOne}

RECURSIVE push_opacity(_, _, _, _)
push_opacity(tree, children, i, opacity) ==
    IF i > Len(children) THEN tree
    ELSE LET child == children[i]
         IN  push_opacity(
                 [tree EXCEPT ![child].attrib =
                     _inherit_attrib([n \in {"opacity"} |-> ntos(opacity)], @,
                                     tree[child].tag, {})],
                 children, i + 1, opacity)

\* the tree after _try_remove_group(group_el)
_try_remove_group(tree, group_el) ==
    LET opacity == _opacity(tree[group_el])
        children == tree[group_el].children
    IN  IF _is_removable_group(tree, group_el)
        THEN push_opacity(IF getparent(tree, group_el) # 0
                          THEN _replace_el(tree, group_el, children) ELSE tree,
                          children, 1, opacity)
        ELSE [tree EXCEPT ![group_el].attrib =
                 _drop_default_attrib([n \in {"opacity"} |-> ntos(opacity)])]

(***************************************************************************)
(* svg.py: traversal.  A context path is the sequence of its steps         *)
(* <<tag, nth_of_type>>: "/svg[0]/g[1]" is <<<<"svg", 0>>, <<"g", 1>>>>.   *)
(***************************************************************************)
\* no element of the model's documents has a clip-path: clips stays ()
SVGTraverseContext(nth, element, path, transform, clips, attrib) ==
    [nth_of_type |-> nth, element |-> element, path |-> path, transform |-> transform,
     clips |-> clips, attrib |-> attrib]

\* A plausible slip: the factors composed in the other order.
_element_transform_swapped(el, current_transform) ==
    LET attr_name == IF _is_gradient(el.tag) THEN "gradientTransform" ELSE "transform"
        raw == attrib_get(el.attrib, attr_name, <<>>)
    IN  IF Len(raw) > 0
        THEN compose_ltr(<<current_transform, parse_svg_transform(raw)>>)
        ELSE current_transform

_element_transform(el, current_transform) ==
    LET attr_name == IF _is_gradient(el.tag) THEN "gradientTransform" ELSE "transform"
        raw == attrib_get(el.attrib, attr_name, <<>>)
    IN  IF Len(raw) > 0
        THEN compose_ltr(<<parse_svg_transform(raw), current_transform>>)
        ELSE current_transform

nth_of_type(tree, children, i) ==
    Cardinality({j \in 1..(i - 1) : tree[children[j]].tag = tree[children[i]].tag})

\* an XML comment is a node whose tag is etree.Comment, written "!--" here
is_Comment(tag) == tag = "!--"

new_entries(tree, context) ==
    Only([children \in {SelectSeq(tree[context.element].children, LAMBDA child : ~is_Comment(tree[child].tag))} |->
        
            [i \in 1..Len(children) |->
                Only([nth \in {nth_of_type(tree, children, i)} |->
                    SVGTraverseContext(
                        nth,
                        children[i],
                        Append(context.path, <<tree[children[i]].tag, nth>>),
                        _element_transform(tree[children[i]], context.transform),
                        context.clips,
                        _attrib_to_pass_on(tree[children[i]], context.attrib))])]])

RECURSIVE _traverse(_, _, _)
_traverse(tree, frontier, yielded) ==
    IF Len(frontier) = 0 THEN yielded
    ELSE Only([f \in {Tail(frontier) \o new_entries(tree, Head(frontier))} |->
              _traverse(tree, f, Append(yielded, Head(frontier)))])

\* the frontier _traverse starts from; the root's path is "/svg[0]"
root_frontier(tree, svg_root) ==
    <<SVGTraverseContext(0, svg_root, <<<<"svg", 0>>>>, identity, <<>>,
                         _attrib_to_pass_on(tree[svg_root], NoAttrib))>>

\* the contexts in breadth-first order
breadth_first(tree, svg_root) == _traverse(tree, root_frontier(tree, svg_root), <<>>)

reversed(s) == [i \in 1..Len(s) |-> s[Len(s) + 1 - i]]

\* depth_first takes from the back, f.pop(), and extends by reversed(e);
\* breadth_first takes from the front, f.pop(0), and extends by e
next_fn(order, frontier) ==
    IF order = "depth_first" THEN frontier[Len(frontier)] ELSE Head(frontier)

\* A plausible slip: depth_first extends by e as breadth_first does.
append_fn_unreversed(order, frontier, entries) ==
    IF order = "depth_first"
    THEN SubSeq(frontier, 1, Len(frontier) - 1) \o entries
    ELSE Tail(frontier) \o entries

append_fn(order, frontier, entries) ==
    IF order = "depth_first"
    THEN SubSeq(frontier, 1, Len(frontier) - 1) \o reversed(entries)
    ELSE Tail(frontier) \o entries

(***************************************************************************)
(* svg.py: _simplify.  A step of it maps a record [tree, error]: error is  *)
(* "" until an exception is raised, and nothing runs after that.           *)
(***************************************************************************)
Ok(tree) == [tree |-> tree, error |-> ""]
Raised(tree, error) == [tree |-> tree, error |-> error]

\* f(tree) unless an exception was raised before
Then(st, f(_)) == IF st.error # "" THEN st ELSE Only([t \in {st.tree} |-> f(t)])

\* ids compare as Python strings do
IdOrder == <<"a", "b", "c">>
IdLt(x, y) ==
    (CHOOSE i \in 1..Len(IdOrder) : IdOrder[i] = x) < (CHOOSE i \in 1..Len(IdOrder) : IdOrder[i] = y)

\* the index _add_to_defs inserts at: that of the first child of defs whose
\* id is greater, 0 when there is none
RECURSIVE insert_at(_, _, _, _)
insert_at(tree, children, new_id, i) ==
    IF i > Len(children) THEN 0
    ELSE IF IdLt(new_id, tree[children[i]].attrib["id"]) THEN i - 1
    ELSE insert_at(tree, children, new_id, i + 1)

\* el.attrib["id"] of a child without id is a KeyError, if the loop gets to it
RECURSIVE raises_KeyError(_, _, _, _)
raises_KeyError(tree, children, new_id, i) ==
    /\ i <= Len(children)
    /\ \/ "id" \notin DOMAIN tree[children[i]].attrib
       \/ /\ ~IdLt(new_id, tree[children[i]].attrib["id"])
          /\ raises_KeyError(tree, children, new_id, i + 1)

_add_to_defs(tree, defs, new_el) ==
    IF "id" \notin DOMAIN tree[new_el].attrib THEN Ok(tree)
    ELSE IF raises_KeyError(tree, tree[defs].children, tree[new_el].attrib["id"], 1)
    THEN Raised(tree, "KeyError")
    ELSE Ok(insert(tree, defs,
                   insert_at(tree, tree[defs].children, tree[new_el].attrib["id"], 1),
                   new_el))

\* without gradientTransform the translation is the identity and the
\* element gets the attributes of its dataclass, which has no id
_apply_gradient_translation(tree, el) ==
    [tree EXCEPT ![el].attrib = gradient_to_element(SVGLinearGradient_from_element(tree[el]))]

\* for child_el in el: self._add_to_defs(defs, child_el)
RECURSIVE move_to_defs(_, _, _, _)
move_to_defs(st, defs, children, i) ==
    IF i > Len(children) THEN st
    ELSE move_to_defs(Then(st, LAMBDA t : _add_to_defs(t, defs, children[i])),
                      defs, children, i + 1)

\* fill.startswith("url(") and _id_of_target(fill)
IsUrl(fill) == fill \in {"url(#a)", "url(#b)"}
_id_of_target(url) == IF url = "url(#a)" THEN "a" ELSE "b"

\* xpath('//svg:*[@id="..."]'): the elements of the document with that id
WithId(tree, svg_root, id) ==
    {el \in {iter(tree, svg_root)[i] : i \in 1..Len(iter(tree, svg_root))} :
        "id" \in DOMAIN tree[el].attrib /\ tree[el].attrib["id"] = id}

\* self._elements(): the shapes of the document, in document order
_elements(tree, svg_root) ==
    LET els == SelectSeq(iter(tree, svg_root), LAMBDA el : _is_shape(tree[el].tag))
    IN  [i \in 1..Len(els) |-> <<els[i], from_element(tree[els[i]])>>]

\* the ids of the gradients that a shape's fill resolves to; resolve_url
\* raises ValueError, which is skipped, unless exactly one element has the id
used_gradient_ids(tree, svg_root) ==
    LET elements == _elements(tree, svg_root)
    IN  {_id_of_target(elements[i][2].fill) :
            i \in {i \in 1..Len(elements) :
                    /\ IsUrl(elements[i][2].fill)
                    /\ \E el \in WithId(tree, svg_root, _id_of_target(elements[i][2].fill)) :
                        /\ WithId(tree, svg_root, _id_of_target(elements[i][2].fill)) = {el}
                        /\ _is_gradient(tree[el].tag)}}

RECURSIVE remove_each(_, _, _)
remove_each(tree, els, i) ==
    IF i > Len(els) THEN tree
    ELSE remove_each(_safe_remove(tree, els[i]), els, i + 1)

\* A plausible slip: no gradient is removed.
_remove_orphaned_gradients_skipped(tree, svg_root) == tree

_remove_orphaned_gradients(tree, svg_root) ==
    Only([used \in {used_gradient_ids(tree, svg_root)} |->
        remove_each(tree,
                    SelectSeq(iter(tree, svg_root), LAMBDA el :
                        /\ _is_gradient(tree[el].tag)
                        /\ \/ "id" \notin DOMAIN tree[el].attrib
                           \/ tree[el].attrib["id"] \notin used),
                    1)])

\* one turn of the loop of _simplify, for the element of context
simplify_element(tree, defs, context) ==
    LET el == context.element
        skips == _ATTRIB_W_CUSTOM_INHERITANCE \cup {"opacity"}
        own == _del_attrs(_del_attrs(tree[el].attrib, _ATTRIB_W_CUSTOM_INHERITANCE),
                          DOMAIN context.attrib \ skips)
    IN  IF \E i \in 1..Len(context.path) : context.path[i][1] = "clipPath"
        THEN Ok(_safe_remove(tree, el))
        ELSE Only([inherited \in {[tree EXCEPT ![el].attrib =
                       _inherit_attrib(context.attrib, own, tree[el].tag, skips)]} |->
             IF _is_shape(tree[el].tag)
             \* without transform, stroke and clip the path equals initial_path
             \* and the element is not replaced
             THEN IF Len(tree[el].children) # 0 THEN Raised(inherited, "AssertionError")
                  ELSE Ok(inherited)
             ELSE IF _is_gradient(tree[el].tag)
             THEN Then(_add_to_defs(_safe_remove(inherited, el), defs, el),
                       LAMBDA t : Ok(_apply_gradient_translation(t, el)))
             ELSE IF _is_defs(tree[el].tag)
             THEN Then(move_to_defs(Ok(inherited), defs, inherited[el].children, 1),
                       LAMBDA t : Ok(_safe_remove(t, el)))
             ELSE IF _is_group(tree[el].tag)
             THEN Ok(_try_remove_group(inherited, el))
             ELSE Ok(inherited)])

\* for context in to_process, the last context first
RECURSIVE simplify_loop(_, _, _, _)
simplify_loop(st, defs, to_process, i) ==
    IF i = 0 THEN st
    ELSE simplify_loop(Then(st, LAMBDA t : simplify_element(t, defs, to_process[i])),
                       defs, to_process, i - 1)

\* the tree after _simplify; the new defs is element Len(tree) + 1
_simplify(tree, svg_root) ==
    LET defs == Len(tree) + 1
        with_defs == insert(NewElement(tree, Element("defs", NoAttrib, <<>>)), svg_root, 0, defs)
    IN  Then(Only([to_process \in {breadth_first(tree, svg_root)} |->
                  simplify_loop(Ok(with_defs), defs, to_process, Len(to_process))]),
             LAMBDA t :
                 Only([t2 \in {_remove_orphaned_gradients(
                         [t EXCEPT ![svg_root].attrib = _del_attrs(@, _INHERITABLE_ATTRIB)],
                         svg_root)} |->
                     
                         Ok(remove_each(t2,
                                        SelectSeq(t2[defs].children,
                                                  LAMBDA el : ~_is_gradient(t2[el].tag)),
                                        1))]))

(***************************************************************************)
(* svg.py: the shapes of self.elements and _update_etree.                  *)
(***************************************************************************)
\* _swap_elements for one element: a fresh element takes the place of old_el
swap_element(tree, old_el, shape) ==
    IF getparent(tree, old_el) = 0 THEN Raised(tree, "ValueError: Lost parent!")
    ELSE LET new_el == Len(tree) + 1
             parent == getparent(tree, old_el)
         IN  Ok([NewElement(tree, to_element(shape)) EXCEPT ![parent].children =
                    [i \in 1..Len(@) |-> IF @[i] = old_el THEN new_el ELSE @[i]]])

RECURSIVE swap_elements(_, _, _)
swap_elements(st, elements, i) ==
    IF i > Len(elements) THEN st
    ELSE swap_elements(Then(st, LAMBDA t : swap_element(t, elements[i][1], elements[i][2])),
                       elements, i + 1)

\* the tree after _update_etree (self.elements is None after it)
_update_etree(tree, elements) == swap_elements(Ok(tree), elements, 1)

\* svg_types.py: SVGShape.might_paint, the area being that of the polygon
\* through the end points of the commands
EndPoints(cmds) ==
    LET drawn == SelectSeq(cmds, LAMBDA c : c.cmd \in {"M", "L"})
    IN  [i \in 1..Len(drawn) |-> drawn[i].args]

RECURSIVE shoelace(_, _)
shoelace(pts, i) ==
    IF i > Len(pts) THEN Zero
    ELSE LET p == pts[i]
             q == pts[(i % Len(pts)) + 1]
         IN  RAdd(RSub(RMul(p[1], q[2]), RMul(q[1], p[2])), shoelace(pts, i + 1))

path_area(cmds) == RAbs(shoelace(EndPoints(cmds), 1))

as_cmd_seq(d) == absolute(expand_shorthand(explicit_lines(d)))

might_paint(shape) ==
    /\ \E i \in 1..Len(shape.d) : upper(shape.d[i].cmd) # "M"
    /\ shape.fill # "none"
    /\ shape.opacity # DecZero
    /\ Only([cmds \in {as_cmd_seq(shape.d)} |-> RLt(Zero, path_area(cmds))])

\* SVGPath.round_floats
round_floats(shape, ndigits) ==
    [shape EXCEPT
        !.opacity = DecRound(@, ndigits),
        !.d = [i \in 1..Len(@) |->
                  Cmd(@[i].cmd, [k \in 1..Len(@[i].args) |-> round(@[i].args[k], ndigits)])]]

(***************************************************************************)
(* svg.py: checkpicosvg.                                                   *)
(***************************************************************************)
Root == <<<<"svg", 0>>>>
RootDefs == <<<<"svg", 0>>, <<"defs", 0>>>>

\* re.match(pat, context.path) for a pat of path_allowlist
Allowed(path) ==
    \/ path = Root
    \/ path = RootDefs
    \/ /\ Len(path) \in {3, 4}
       /\ SubSeq(path, 1, 2) = RootDefs
       /\ _is_gradient(path[3][1])
       /\ Len(path) = 4 => path[4][1] = "stop"
    \/ /\ Len(path) >= 2
       /\ path[1] = Root[1]
       /\ \A i \in 2..Len(path) : path[i][1] \in {"path", "g"}

IsPrefix(p, q) == Len(p) <= Len(q) /\ SubSeq(q, 1, Len(p)) = p

\* the locals of checkpicosvg after the contexts up to i
RECURSIVE check_loop(_, _, _, _)
check_loop(tree, contexts, i, locals) ==
    IF i > Len(contexts) THEN locals
    ELSE LET context == contexts[i]
             el_id == attrib_get(tree[context.element].attrib, "id", "")
             has_id == "id" \in DOMAIN tree[context.element].attrib
         IN  check_loop(tree, contexts, i + 1,
                 IF \E bp \in locals.bad_paths : IsPrefix(bp, context.path) THEN locals
                 ELSE IF ~Allowed(context.path)
                 THEN [locals EXCEPT !.errors = Append(@, <<"BadElement", context.path>>),
                                     !.bad_paths = @ \cup {context.path}]
                 ELSE [locals EXCEPT
                          !.paths_required = @ \ {context.path},
                          !.errors = IF has_id /\ el_id \in DOMAIN locals.ids
                                     THEN Append(@, <<"BadElement: reuses id", context.path,
                                                      el_id, locals.ids[el_id]>>)
                                     ELSE @,
                          !.ids = IF has_id THEN attrib_set(@, el_id, context.path) ELSE @])

\* the errors checkpicosvg returns for a tree that _update_etree has synced
checkpicosvg(tree, svg_root) ==
    Only([locals \in {check_loop(tree, breadth_first(tree, svg_root), 1,
                                 [errors |-> <<>>, bad_paths |-> {},
                                  ids |-> [id \in {} |-> <<>>],
                                  paths_required |-> {Root, RootDefs}])} |->
        locals.errors
        \o (IF Root \in locals.paths_required THEN <<<<"MissingElement", Root>>>> ELSE <<>>)
        \o (IF RootDefs \in locals.paths_required THEN <<<<"MissingElement", RootDefs>>>> ELSE <<>>)])

(***************************************************************************)
(* Inputs of the Affine2D operations.                                      *)
(***************************************************************************)
MaxCoef == 1     \* matrix coefficients a, d range over -MaxCoef..MaxCoef
MaxTrans == 1    \* translations e, f range over 0..MaxTrans
MaxPt == 1       \* mapped points have coordinates in -MaxPt..MaxPt

Coefs == {Rat(n) : n \in -MaxCoef..MaxCoef}
Shears == {RNeg(One), Zero, One}    \* the off-diagonal coefficients b, c
Trans == {Rat(n) : n \in 0..MaxTrans}

AffineInputs ==
    {Affine2D(a, b, c, d, e, f) : a \in Coefs, b \in Shears, c \in Shears, d \in Coefs,
                                  e \in Trans, f \in Trans}

\* What the SVG transform functions build: translate, scale, rotate by quarter
\* turns about a centre, skewX/skewY by 45 degrees.
ElementaryAffines ==
    {translate(identity, tx, ty) : tx \in Trans, ty \in Trans}
    \cup {scale(identity, Rat(2), Rat(3)), scale(identity, Rat(-1), One)}
    \cup {rotate(identity, Zero, One, cx, Zero) : cx \in Trans}
    \cup {rotate(identity, RNeg(One), Zero, Zero, One)}
    \cup {skewx(identity, One), skewy(identity, One)}

Points == {Point(Rat(x), Rat(y)) : x \in -MaxPt..MaxPt, y \in -MaxPt..MaxPt}

(***************************************************************************)
(* The Affine2D operations as steps.                                       *)
(***************************************************************************)
\* The values the variables of a family hold in a specification that does not
\* exercise it.
AffRest == [affA |-> identity, affB |-> <<>>, affOut |-> identity, affOp |-> "idle"]
PathRest ==
    [pathD |-> <<>>, pathOrig |-> <<>>, pathOp |-> "idle", pathPrevOp |-> "idle",
     walkOut |-> WalkStart]

TxtRest ==
    [txtD |-> <<>>, txtExploded |-> FALSE, txtCmds |-> [ok |-> FALSE, cmds |-> <<>>],
     txtD2 |-> <<>>, txtCmds2 |-> [ok |-> FALSE, cmds |-> <<>>], txtPhase |-> "idle"]

ReuseRest ==
    [reuseS1 |-> <<>>, reuseS2 |-> <<>>, reuseF1 |-> <<>>, reuseF2 |-> <<>>, reuseTol |-> Zero, reusePos |-> "idle",
     reuseOut |-> ReturnedNone("idle")]

PicoRest ==
    [picoInput |-> <<>>, picoInplace |-> FALSE, picoNdigits |-> 0, picoSelf |-> <<>>, picoTree |-> <<>>,
     picoElements |-> <<>>, picoPos |-> "idle", picoRun |-> 0, picoFirst |-> <<>>,
     picoError |-> ""]

DocRest ==
    /\ docInput = <<>>
    /\ docTree = <<>>
    /\ docPos = "idle"
    /\ docFrontier = <<>>
    /\ docOut = <<>>
    /\ docFirst = <<>>
    /\ docError = ""

AffInit ==
    /\ affA \in AffineInputs
    /\ affB = <<>>
    /\ affOut = identity
    /\ affOp = "init"
    /\ pathD = PathRest.pathD
    /\ pathOrig = PathRest.pathOrig
    /\ pathOp = PathRest.pathOp
    /\ pathPrevOp = PathRest.pathPrevOp
    /\ walkOut = PathRest.walkOut
    /\ txtD = TxtRest.txtD
    /\ txtExploded = TxtRest.txtExploded
    /\ txtCmds = TxtRest.txtCmds
    /\ txtD2 = TxtRest.txtD2
    /\ txtCmds2 = TxtRest.txtCmds2
    /\ txtPhase = TxtRest.txtPhase
    /\ reuseS1 = ReuseRest.reuseS1
    /\ reuseS2 = ReuseRest.reuseS2
    /\ reuseF1 = ReuseRest.reuseF1
    /\ reuseF2 = ReuseRest.reuseF2
    /\ reuseTol = ReuseRest.reuseTol
    /\ reusePos = ReuseRest.reusePos
    /\ reuseOut = ReuseRest.reuseOut
    /\ picoInput = PicoRest.picoInput
    /\ picoInplace = PicoRest.picoInplace
    /\ picoNdigits = PicoRest.picoNdigits
    /\ picoSelf = PicoRest.picoSelf
    /\ picoTree = PicoRest.picoTree
    /\ picoElements = PicoRest.picoElements
    /\ picoPos = PicoRest.picoPos
    /\ picoRun = PicoRest.picoRun
    /\ picoFirst = PicoRest.picoFirst
    /\ picoError = PicoRest.picoError
    /\ DocRest

Inverse ==
    /\ affOp = "init"
    /\ affOut' = inverse(affA)
    /\ affOp' = "inverse"
    /\ UNCHANGED <<affA, affB, pathVars, txtVars, reuseVars, picoVars, docVars>>

Product ==
    /\ affOp = "init"
    /\ \E second \in ElementaryAffines :
        /\ affB' = <<second>>
        /\ affOut' = product(affA, second)
    /\ affOp' = "product"
    /\ UNCHANGED <<affA, pathVars, txtVars, reuseVars, picoVars, docVars>>

ComposeLtr ==
    /\ affOp = "init"
    /\ \E affines \in {<<>>, <<affA>>} \cup {<<affA, second>> : second \in ElementaryAffines} :
        /\ affB' = affines
        /\ affOut' = compose_ltr(affines)
    /\ affOp' = "compose_ltr"
    /\ UNCHANGED <<affA, pathVars, txtVars, reuseVars, picoVars, docVars>>

AffNext == Inverse \/ Product \/ ComposeLtr

SpecAffine == AffInit /\ [][AffNext]_vars

(***************************************************************************)
(* Input paths: a move followed by up to MaxPathLen commands, drawn from   *)
(* a pool of line commands or from a pool of curve commands.               *)
(***************************************************************************)
MaxPathLen == 3

\* a coordinate offset inside the default tolerance
Eps == DEFAULT_ALMOST_EQUAL_TOLERANCE

FirstMoves == {Cmd("M", <<Zero, Zero>>), Cmd("m", <<One, Zero>>)}

LinePool ==
    {Cmd("z", <<>>), Cmd("l", <<One, Zero>>), Cmd("v", <<Eps>>), Cmd("M", <<One, One>>)}

CurvePool ==
    {Cmd("q", <<One, One, Rat(2), Zero>>), Cmd("C", <<Zero, One, One, One, Rat(2), Zero>>),
     Cmd("S", <<One, One, One, Zero>>), Cmd("t", <<One, Zero>>)}

SeqsUpTo(S, n) == UNION {[1..k -> S] : k \in 0..n}

PathInputs ==
    {<<first>> \o tail : first \in FirstMoves, tail \in SeqsUpTo(LinePool, MaxPathLen)}
    \cup {<<Cmd("M", <<Zero, Zero>>)>> \o tail : tail \in SeqsUpTo(CurvePool, MaxPathLen)}

(***************************************************************************)
(* The path rewrites as steps: each replaces the path's d by the walk's    *)
(* output.                                                                 *)
(***************************************************************************)
PathInit ==
    /\ pathD \in PathInputs
    /\ pathOrig = pathD
    /\ pathOp = "init"
    /\ pathPrevOp = "init"
    /\ walkOut = WalkStart
    /\ affA = AffRest.affA
    /\ affB = AffRest.affB
    /\ affOut = AffRest.affOut
    /\ affOp = AffRest.affOp
    /\ txtD = TxtRest.txtD
    /\ txtExploded = TxtRest.txtExploded
    /\ txtCmds = TxtRest.txtCmds
    /\ txtD2 = TxtRest.txtD2
    /\ txtCmds2 = TxtRest.txtCmds2
    /\ txtPhase = TxtRest.txtPhase
    /\ reuseS1 = ReuseRest.reuseS1
    /\ reuseS2 = ReuseRest.reuseS2
    /\ reuseF1 = ReuseRest.reuseF1
    /\ reuseF2 = ReuseRest.reuseF2
    /\ reuseTol = ReuseRest.reuseTol
    /\ reusePos = ReuseRest.reusePos
    /\ reuseOut = ReuseRest.reuseOut
    /\ picoInput = PicoRest.picoInput
    /\ picoInplace = PicoRest.picoInplace
    /\ picoNdigits = PicoRest.picoNdigits
    /\ picoSelf = PicoRest.picoSelf
    /\ picoTree = PicoRest.picoTree
    /\ picoElements = PicoRest.picoElements
    /\ picoPos = PicoRest.picoPos
    /\ picoRun = PicoRest.picoRun
    /\ picoFirst = PicoRest.picoFirst
    /\ picoError = PicoRest.picoError
    /\ DocRest

Walk(cb) ==
    /\ \A i \in 1..Len(pathD) : check_cmd(pathD[i].cmd, pathD[i].args)
    /\ walkOut' = walk(pathD, Callback(cb))
    /\ pathD' = walk_d(walkOut')
    /\ pathOrig' = pathD
    /\ pathPrevOp' = pathOp
    /\ pathOp' = cb

Absolute == Walk("absolute") /\ UNCHANGED <<affVars, txtVars, reuseVars, picoVars, docVars>>
Relative == Walk("relative") /\ UNCHANGED <<affVars, txtVars, reuseVars, picoVars, docVars>>
ExplicitLines == Walk("explicit_lines") /\ UNCHANGED <<affVars, txtVars, reuseVars, picoVars, docVars>>
ExpandShorthand == Walk("expand_shorthand") /\ UNCHANGED <<affVars, txtVars, reuseVars, picoVars, docVars>>

PathNext == Absolute \/ Relative \/ ExplicitLines \/ ExpandShorthand

SpecPath == PathInit /\ [][PathNext]_vars

(***************************************************************************)
(* C3: inverse round-trip. For every non-degenerate affine A and every     *)
(* point P, A.inverse().map_point(A.map_point(P)) equals P within the      *)
(* default tolerance.                                                      *)
(***************************************************************************)
C3_InverseRoundTrip ==
    (affOp = "inverse" /\ ~is_degenerate(affA)) =>
        \A P \in Points :
            Point_almost_equals(map_point(affOut, map_point(affA, P)), P,
                                DEFAULT_ALMOST_EQUAL_TOLERANCE)

(***************************************************************************)
(* C4: composition order. compose_ltr([A, B]).map_point(P) equals          *)
(* B.map_point(A.map_point(P)) within tolerance, product(A, B) applies A   *)
(* first and then B, and compose_ltr of the empty sequence is identity.    *)
(***************************************************************************)
C4_ComposeOrder ==
    /\ (affOp = "compose_ltr" /\ Len(affB) = 2) =>
        \A P \in Points :
            Point_almost_equals(map_point(affOut, P),
                                map_point(affB[2], map_point(affB[1], P)),
                                DEFAULT_ALMOST_EQUAL_TOLERANCE)
    /\ (affOp = "compose_ltr" /\ Len(affB) = 1) => affOut = affB[1]
    /\ (affOp = "compose_ltr" /\ Len(affB) = 0) => affOut = identity
    /\ affOp = "product" =>
        \A P \in Points :
            Point_almost_equals(map_point(affOut, P),
                                map_point(affB[1], map_point(affA, P)),
                                DEFAULT_ALMOST_EQUAL_TOLERANCE)

\* A pair whose two orders differ (a rotation followed by a translation) has
\* been composed.
C4_Witness ==
    /\ affOp = "compose_ltr"
    /\ Len(affB) = 2
    /\ affB[1].b # Zero
    /\ affB[2].e # Zero
    /\ product(affB[1], affB[2]) # product(affB[2], affB[1])

(***************************************************************************)
(* The pen positions of a path by the SVG path semantics, computed from    *)
(* the commands alone: what the claims below compare the walker with.      *)
(***************************************************************************)
Origin == Point(Zero, Zero)

\* where command c takes the pen from p, the current subpath having begun at start
PenStep(p, start, c) ==
    LET n == Len(c.args)
    IN  CASE upper(c.cmd) = "Z" -> start
          [] c.cmd = "H" -> Point(c.args[n], p.y)
          [] c.cmd = "h" -> Point(RAdd(p.x, c.args[n]), p.y)
          [] c.cmd = "V" -> Point(p.x, c.args[n])
          [] c.cmd = "v" -> Point(p.x, RAdd(p.y, c.args[n]))
          [] OTHER -> IF isupper(c.cmd) THEN Point(c.args[n - 1], c.args[n])
                      ELSE Point(RAdd(p.x, c.args[n - 1]), RAdd(p.y, c.args[n]))

RECURSIVE PenAfter(_, _)
RECURSIVE SubpathStartAt(_, _)
\* the endpoint of the most recent move among the first i commands
SubpathStartAt(cmds, i) ==
    IF i = 0 THEN Origin
    ELSE IF upper(cmds[i].cmd) = "M" THEN PenAfter(cmds, i)
    ELSE SubpathStartAt(cmds, i - 1)

\* the pen position after the first i commands
PenAfter(cmds, i) ==
    IF i = 0 THEN Origin
    ELSE PenStep(PenAfter(cmds, i - 1), SubpathStartAt(cmds, i - 1), cmds[i])

IsClose(c) == upper(c.cmd) = "Z"

\* the walker's current position after its i-th new command
WalkPos(st, i) ==
    IF i < Len(st.new_cmds) THEN st.new_cmds[i + 1].prev_pos ELSE st.curr_pos

Walked == pathOp \in {"absolute", "relative", "explicit_lines", "expand_shorthand"}

(***************************************************************************)
(* C7: close resets the running position. While walking any path, after    *)
(* every close command the walker's current position is the endpoint of    *)
(* the most recent move command; consecutive closes keep that position and *)
(* a relative command following a close is resolved from it.               *)
(***************************************************************************)
C7_CloseResetsPosition ==
    Walked =>
        \A i \in 1..Len(pathD) :
            /\ IsClose(pathD[i]) =>
                /\ WalkPos(walkOut, i) = SubpathStartAt(pathD, i)
                /\ (i > 1 /\ IsClose(pathD[i - 1])) =>
                       WalkPos(walkOut, i) = WalkPos(walkOut, i - 1)
            /\ (i > 1 /\ IsClose(pathD[i - 1]) /\ islower(pathD[i].cmd)) =>
                   WalkPos(walkOut, i) =
                       PenStep(SubpathStartAt(pathD, i - 1), SubpathStartAt(pathD, i - 1),
                               pathD[i])

\* A close that moved the pen back (to a subpath start that is not the origin
\* of the path), followed by a relative drawing command.
C7_Witness ==
    /\ Walked
    /\ \E i \in 2..Len(pathD) :
        /\ IsClose(pathD[i - 1])
        /\ walkOut.new_cmds[i - 1].prev_pos # WalkPos(walkOut, i - 1)
        /\ WalkPos(walkOut, i - 1) # Origin
        /\ pathD[i].cmd = "l"

(***************************************************************************)
(* C8: absolute() preserves geometry.                                      *)
(***************************************************************************)
Near(p, q) == p # q /\ Point_almost_equals(p, q, DEFAULT_ALMOST_EQUAL_TOLERANCE)

\* same number of commands, in the same order, every letter upper-case (a
\* horizontal or vertical line whose endpoint is snapped is written as L)
SameCommandsUpper ==
    /\ Len(pathD) = Len(pathOrig)
    /\ \A i \in 1..Len(pathD) :
        /\ isupper(pathD[i].cmd)
        /\ \/ pathD[i].cmd = upper(pathOrig[i].cmd)
           \/ upper(pathOrig[i].cmd) \in {"H", "V"} /\ pathD[i].cmd = "L"

\* relative() after absolute() traces the pen positions of absolute()'s output
RelativeRetraces ==
    (pathOp = "relative" /\ pathPrevOp = "absolute") =>
        /\ Len(pathD) = Len(pathOrig)
        /\ \A i \in 1..Len(pathD) :
            /\ islower(pathD[i].cmd)
            /\ PenAfter(pathD, i) = PenAfter(pathOrig, i)

(* C8: for every path, absolute() yields the same number of commands in    *)
(* the same order, every letter upper-case; the pen position after each    *)
(* command is the one the original command reaches from the rewritten      *)
(* path's pen position (so a relative command after a snapped endpoint is  *)
(* displaced by the snap), except that an endpoint landing within the      *)
(* tolerance of the current subpath start is set exactly to the subpath    *)
(* start; relative() applied afterwards traces the same pen positions.     *)
C8_AbsoluteGeometry ==
    /\ pathOp = "absolute" =>
        /\ SameCommandsUpper
        /\ \A i \in 1..Len(pathD) :
            LET start == SubpathStartAt(pathD, i - 1)
                reached == PenStep(PenAfter(pathD, i - 1), start, pathOrig[i])
            IN  PenAfter(pathD, i) = IF Near(reached, start) THEN start ELSE reached
    /\ RelativeRetraces

\* C8 as stated: the pen positions of absolute()'s output equal those of the
\* original path, except for endpoints snapped to the subpath start.
C8_AsStated ==
    /\ pathOp = "absolute" =>
        /\ SameCommandsUpper
        /\ \A i \in 1..Len(pathD) :
            \/ PenAfter(pathD, i) = PenAfter(pathOrig, i)
            \/ /\ PenAfter(pathD, i) = SubpathStartAt(pathD, i - 1)
               /\ \/ Near(PenAfter(pathOrig, i), SubpathStartAt(pathD, i - 1))
                  \/ Near(PenAfter(pathOrig, i), SubpathStartAt(pathOrig, i - 1))
    /\ RelativeRetraces

\* absolute() has snapped an endpoint and a relative command followed it.
C8_Witness ==
    /\ pathOp = "absolute"
    /\ \E i \in 1..(Len(pathD) - 1) :
        /\ PenAfter(pathD, i) = SubpathStartAt(pathD, i - 1)
        /\ Near(PenAfter(pathOrig, i), PenAfter(pathD, i))
        /\ pathOrig[i + 1].cmd = "l"

(***************************************************************************)
(* C9: expand_shorthand control points. Each S/s becomes a C and each T/t  *)
(* a Q; the inserted first control point is the reflection of the previous *)
(* command's last control point through the current point only when the    *)
(* previous command was of the same curve family (C/S before S, Q/T before *)
(* T); otherwise it coincides with the current point. Every other command  *)
(* is kept (a leading m being walked as M).                                *)
(***************************************************************************)
SameFamily(prev_cmd, cmd) ==
    \/ upper(cmd) = "S" /\ upper(prev_cmd) \in {"C", "S"}
    \/ upper(cmd) = "T" /\ upper(prev_cmd) \in {"Q", "T"}

\* the arguments of command c in absolute coordinates, the pen being at p
AbsArgs(p, c) == IF islower(c.cmd) THEN _relative_to_absolute(p, c.cmd, c.args).args ELSE c.args

C9_ExpandShorthand ==
    pathOp = "expand_shorthand" =>
        /\ Len(pathD) = Len(pathOrig)
        /\ \A i \in 1..Len(pathD) :
            LET old == pathOrig[i]
                new == pathD[i]
                cur == PenAfter(pathOrig, i - 1)
                new_args == AbsArgs(cur, new)
                prev_args == AbsArgs(PenAfter(pathOrig, i - 2), pathD[i - 1])
                n == Len(prev_args)
            IN  IF upper(old.cmd) \notin {"S", "T"}
                THEN new = Cmd(IF i = 1 /\ old.cmd = "m" THEN "M" ELSE old.cmd, old.args)
                ELSE /\ upper(new.cmd) = IF upper(old.cmd) = "S" THEN "C" ELSE "Q"
                     /\ SubSeq(new_args, 3, Len(new_args)) = AbsArgs(cur, old)
                     /\ <<new_args[1], new_args[2]>> =
                            IF i > 1 /\ SameFamily(pathOrig[i - 1].cmd, old.cmd)
                            THEN <<RSub(RMul(Rat(2), cur.x), prev_args[n - 3]),
                                   RSub(RMul(Rat(2), cur.y), prev_args[n - 2])>>
                            ELSE <<cur.x, cur.y>>

(***************************************************************************)
(* Input path-data strings: number literals placed in command templates.   *)
(***************************************************************************)
NumLits ==
    {<<"0">>, <<"1">>, <<"-", "1">>, <<".", "5">>, <<"-", "1", ".", "2", "5">>,
     <<"1", "e", "2">>, <<"2", "E", "-", "5">>, <<"+", "1", "2", "0">>,
     <<"1", "e", "9", "9", "9">>}

Flags == {<<"0">>, <<"1">>}

PathStrings ==
    \* a move, comma separated
    {<<"M">> \o a \o <<",">> \o b : a \in NumLits, b \in NumLits}
    \* a relative move with implicit line repeats, space separated
    \cup {<<"m">> \o a \o <<" ">> \o b \o <<" ", "1", ",", "1", " ">> \o b \o <<" ">> \o a :
              a \in NumLits, b \in NumLits}
    \* numbers that need no separator, then a close
    \cup {<<"M">> \o a \o <<"-", ".", "5", ".", "2", "5", "-", "3">> \o <<"z">> : a \in NumLits}
    \* horizontal and vertical lines with repeated arguments
    \cup {<<"M", "0", ",", "0", " ", "h">> \o a \o <<" ">> \o b \o <<"V">> \o a :
              a \in NumLits, b \in NumLits}
    \* an arc, its two flags written apart or run together
    \cup {<<"M", "0", " ", "0", "a">> \o a \o <<" ", "2", " ", "0", " ">> \o f1 \o sep \o f2
          \o sep \o b \o <<",", "1", "Z">> :
              a \in NumLits, b \in NumLits, f1 \in Flags, f2 \in Flags, sep \in {<<>>, <<" ">>}}
    \* cubic and quadratic curves, absolute and relative
    \cup {<<"M", "1", ",", "1", "C">> \o a \o <<",", "0", " ", "1", ",", "2", " ", "3", ",", "4", "t">>
          \o b \o <<",", "0">> : a \in NumLits, b \in NumLits}
    \* strings parse_svg_path rejects: an odd argument count, a dangling dot
    \cup {<<"M", "1">>, <<"M", "1", ",", "1", ".">>}

NoParse == [ok |-> FALSE, cmds |-> <<>>]

(***************************************************************************)
(* Parsing, serializing and parsing again, as steps.                       *)
(***************************************************************************)
TxtInit ==
    /\ txtD \in PathStrings
    /\ txtExploded \in BOOLEAN
    /\ txtCmds = NoParse
    /\ txtD2 = <<>>
    /\ txtCmds2 = NoParse
    /\ txtPhase = "init"
    /\ affA = AffRest.affA
    /\ affB = AffRest.affB
    /\ affOut = AffRest.affOut
    /\ affOp = AffRest.affOp
    /\ pathD = PathRest.pathD
    /\ pathOrig = PathRest.pathOrig
    /\ pathOp = PathRest.pathOp
    /\ pathPrevOp = PathRest.pathPrevOp
    /\ walkOut = PathRest.walkOut
    /\ reuseS1 = ReuseRest.reuseS1
    /\ reuseS2 = ReuseRest.reuseS2
    /\ reuseF1 = ReuseRest.reuseF1
    /\ reuseF2 = ReuseRest.reuseF2
    /\ reuseTol = ReuseRest.reuseTol
    /\ reusePos = ReuseRest.reusePos
    /\ reuseOut = ReuseRest.reuseOut
    /\ picoInput = PicoRest.picoInput
    /\ picoInplace = PicoRest.picoInplace
    /\ picoNdigits = PicoRest.picoNdigits
    /\ picoSelf = PicoRest.picoSelf
    /\ picoTree = PicoRest.picoTree
    /\ picoElements = PicoRest.picoElements
    /\ picoPos = PicoRest.picoPos
    /\ picoRun = PicoRest.picoRun
    /\ picoFirst = PicoRest.picoFirst
    /\ picoError = PicoRest.picoError
    /\ DocRest

\* list(parse_svg_path(d, exploded))
Parse ==
    /\ txtPhase = "init"
    /\ txtCmds' = parse_svg_path(txtD, txtExploded)
    /\ txtPhase' = IF txtCmds'.ok THEN "parsed" ELSE "invalid"
    /\ UNCHANGED <<txtD, txtExploded, txtD2, txtCmds2, affVars, pathVars, reuseVars, picoVars, docVars>>

\* SVGPath.from_commands(cmds).d
FromCommands ==
    /\ txtPhase = "parsed"
    /\ txtD2' = from_commands(txtCmds.cmds)
    /\ txtPhase' = "serialized"
    /\ UNCHANGED <<txtD, txtExploded, txtCmds, txtCmds2, affVars, pathVars, reuseVars, picoVars, docVars>>

\* list(parse_svg_path(d2, exploded))
Reparse ==
    /\ txtPhase = "serialized"
    /\ txtCmds2' = parse_svg_path(txtD2, txtExploded)
    /\ txtPhase' = "reparsed"
    /\ UNCHANGED <<txtD, txtExploded, txtCmds, txtD2, affVars, pathVars, reuseVars, picoVars, docVars>>

TxtNext == Parse \/ FromCommands \/ Reparse

SpecText == TxtInit /\ [][TxtNext]_vars

(***************************************************************************)
(* C6: path round-trip. For every syntactically valid path-data string d,  *)
(* parsing d, serializing the parsed commands and parsing the result       *)
(* yields the same sequence of (command letter, arguments) pairs as        *)
(* parsing d.                                                              *)
(***************************************************************************)
C6_PathRoundTrip ==
    txtPhase = "reparsed" => txtCmds2.ok /\ txtCmds2.cmds = txtCmds.cmds

(***************************************************************************)
(* Inputs of affine_between: shapes, and their images under affines that   *)
(* the strategies can and cannot recover.                                  *)
(***************************************************************************)
ShapeA ==
    <<Cmd("M", <<Zero, Zero>>), Cmd("H", <<Rat(3)>>), Cmd("V", <<Rat(3)>>), Cmd("Z", <<>>)>>
ShapeB ==
    <<Cmd("M", <<One, One>>), Cmd("l", <<Rat(6), Zero>>), Cmd("l", <<Zero, Rat(3)>>),
      Cmd("l", <<Rat(-6), Zero>>), Cmd("z", <<>>)>>
ShapeC ==
    <<Cmd("M", <<Zero, Zero>>), Cmd("l", <<Rat(3), Zero>>),
      Cmd("q", <<Zero, Rat(3), Rat(-3), Rat(3)>>), Cmd("z", <<>>)>>

ShapeD == <<Cmd("M", <<Zero, Zero>>), Cmd("L", <<One, Zero>>), Cmd("L", <<Rat(2), Zero>>)>>

\* ShapeD with every argument moved by at most 1/8, the two edges by 2/8
ShapeDNear ==
    <<Cmd("M", <<<<1, 8>>, Zero>>), Cmd("L", <<<<7, 8>>, Zero>>), Cmd("L", <<Rat(2), Zero>>)>>

\* ShapeD with each edge longer by 1/8, its last point 2/8 further
ShapeDLong ==
    <<Cmd("M", <<Zero, Zero>>), Cmd("L", <<<<9, 8>>, Zero>>), Cmd("L", <<<<9, 4>>, Zero>>)>>

Shapes1 == {ShapeA, ShapeB, ShapeC, ShapeD}

Rot90 == rotate(identity, Zero, One, Zero, Zero)

AxisGenerators ==
    {identity, translate(identity, One, Rat(2)), translate(identity, <<3, 10000>>, Zero),
     scale(identity, <<1, 3>>, <<1, 3>>), scale(identity, One, <<1, 3>>), flip_y,
     skewx(identity, One)}

TurnGenerators ==
    {Rot90, scale(Rot90, One, Rat(2)), translate(scale(Rot90, <<1, 3>>, <<1, 3>>), One, Zero)}

Shapes2 ==
    {_apply_affine(g, _affine_friendly(s)) : g \in AxisGenerators, s \in Shapes1}
    \cup {_apply_affine(g, _affine_friendly(s)) : g \in TurnGenerators, s \in {ShapeA, ShapeB}}
    \cup {ShapeA, ShapeB, ShapeDNear, ShapeDLong,
          \* its first edge with a significant x part is the fourth command
          <<Cmd("M", <<Zero, Zero>>), Cmd("l", <<Zero, One>>), Cmd("l", <<Zero, One>>),
            Cmd("l", <<One, Zero>>)>>,
          \* no edge with a significant x part
          <<Cmd("M", <<Zero, Zero>>), Cmd("l", <<Zero, Rat(3)>>), Cmd("z", <<>>)>>}

Tolerances == {Zero, <<1, 1000>>, <<1, 8>>}

(***************************************************************************)
(* affine_between as steps, one per strategy.                              *)
(***************************************************************************)
ReuseInit ==
    /\ reuseS1 \in Shapes1
    /\ reuseS2 \in Shapes2
    /\ reuseF1 = <<>>
    /\ reuseF2 = <<>>
    /\ reuseTol \in Tolerances
    /\ reusePos = "start"
    /\ reuseOut = ReturnedNone("init")
    /\ affA = AffRest.affA
    /\ affB = AffRest.affB
    /\ affOut = AffRest.affOut
    /\ affOp = AffRest.affOp
    /\ pathD = PathRest.pathD
    /\ pathOrig = PathRest.pathOrig
    /\ pathOp = PathRest.pathOp
    /\ pathPrevOp = PathRest.pathPrevOp
    /\ walkOut = PathRest.walkOut
    /\ txtD = TxtRest.txtD
    /\ txtExploded = TxtRest.txtExploded
    /\ txtCmds = TxtRest.txtCmds
    /\ txtD2 = TxtRest.txtD2
    /\ txtCmds2 = TxtRest.txtCmds2
    /\ txtPhase = TxtRest.txtPhase
    /\ picoInput = PicoRest.picoInput
    /\ picoInplace = PicoRest.picoInplace
    /\ picoNdigits = PicoRest.picoNdigits
    /\ picoSelf = PicoRest.picoSelf
    /\ picoTree = PicoRest.picoTree
    /\ picoElements = PicoRest.picoElements
    /\ picoPos = PicoRest.picoPos
    /\ picoRun = PicoRest.picoRun
    /\ picoFirst = PicoRest.picoFirst
    /\ picoError = PicoRest.picoError
    /\ DocRest

ReuseOthers == <<affVars, pathVars, txtVars, picoVars, docVars>>

\* if s1.almost_equals(s2, tolerance): return Affine2D.identity(); otherwise
\* s1 = _affine_friendly(s1); s2 = _affine_friendly(s2)
IdentityShortcut ==
    /\ reusePos = "start"
    /\ IF almost_equals(reuseS1, reuseS2, reuseTol)
       THEN /\ reuseOut' = Returned(identity, "identity", identity)
            /\ reusePos' = "returned"
            /\ UNCHANGED <<reuseF1, reuseF2>>
       ELSE /\ reuseOut' = reuseOut
            /\ reusePos' = "translate"
            /\ \E friendly \in {[s \in {reuseS1, reuseS2} |-> _affine_friendly(s)]} :
                   reuseF1' = friendly[reuseS1] /\ reuseF2' = friendly[reuseS2]
    /\ UNCHANGED <<reuseS1, reuseS2, reuseTol, ReuseOthers>>

\* a return of _round(affine, s1, s2, tolerance) if affine passes _try_affine,
\* otherwise on to the strategy named by else_pos
ReturnIfPasses(affine, via, else_pos) ==
    IF _try_affine(affine, reuseF1, reuseF2, reuseTol)
    THEN /\ reuseOut' = Returned(_round(affine, reuseF1, reuseF2, reuseTol), via, affine)
         /\ reusePos' = "returned"
    ELSE /\ reuseOut' = IF else_pos = "returned" THEN ReturnedNone("gave_up") ELSE reuseOut
         /\ reusePos' = else_pos

\* the pure translation between the first moves
TryTranslate ==
    /\ reusePos = "translate"
    /\ \E affine \in {translation_affine(reuseF1, reuseF2)} :
           ReturnIfPasses(affine, "translate", "rotate_scale")
    /\ UNCHANGED <<reuseS1, reuseS2, reuseF1, reuseF2, reuseTol, ReuseOthers>>

\* the first edge of s2 with a significant x part aligned with s1's
TryRotateScale ==
    /\ reusePos = "rotate_scale"
    /\ \E idx \in {s2_vec1x_idx(reuseF2, reuseTol)} :
           IF idx = -1
           THEN reuseOut' = ReturnedNone("no_significant_x") /\ reusePos' = "returned"
           ELSE IF idx >= Len(reuseF1)
           THEN reuseOut' = reuseOut /\ reusePos' = "raised"   \* StopIteration in _nth_vector
           ELSE \E affine \in {rotate_scale_affine(reuseF1, reuseF2, reuseTol)} :
                    ReturnIfPasses(affine, "rotate_scale", "non_uniform")
    /\ UNCHANGED <<reuseS1, reuseS2, reuseF1, reuseF2, reuseTol, ReuseOthers>>

\* the first edges heading off into y scaled to match
TryNonUniform ==
    /\ reusePos = "non_uniform"
    /\ \E primes \in {<<s1_prime(reuseF1, reuseF2, reuseTol), s2_prime(reuseF2, reuseTol)>>} :
       \E idx \in {_first_significant_for_both(primes[1], primes[2], "y", reuseTol)} :
           IF idx = -1
           THEN reuseOut' = ReturnedNone("gave_up") /\ reusePos' = "returned"
           ELSE \E affine \in {non_uniform_affine(reuseF1, reuseF2, reuseTol, primes, idx)} :
                    ReturnIfPasses(affine, "non_uniform", "returned")
    /\ UNCHANGED <<reuseS1, reuseS2, reuseF1, reuseF2, reuseTol, ReuseOthers>>

ReuseNext == IdentityShortcut \/ TryTranslate \/ TryRotateScale \/ TryNonUniform

SpecReuse == ReuseInit /\ [][ReuseNext]_vars

(***************************************************************************)
(* Reuse soundness.  SameWithin is the comparison of two command           *)
(* sequences: same length, same letters and arities, every argument within *)
(* the tolerance.                                                          *)
(***************************************************************************)
SameWithin(p, q, tolerance) ==
    /\ Len(p) = Len(q)
    /\ \A i \in 1..Len(p) :
        /\ p[i].cmd = q[i].cmd
        /\ Len(p[i].args) = Len(q[i].args)
        /\ \A k \in 1..Len(p[i].args) :
            LET diff == RSub(p[i].args[k], q[i].args[k])
            IN  RLe(RNeg(tolerance), diff) /\ RLe(diff, tolerance)

\* M applied to the affine-friendly form of s1 is within the tolerance of the
\* affine-friendly form of s2
MapsFriendly(M) ==
    SameWithin(_apply_affine(M, _affine_friendly(reuseS1)), _affine_friendly(reuseS2), reuseTol)

\* C5 (as amended): whenever affine_between returns an affine M, the comparison
\* that guarded the return passes for the matrix actually returned: M is the
\* identity and s1, s2 as given are within the tolerance of each other, or M
\* applied to the affine-friendly form of s1 is within the tolerance of the
\* affine-friendly form of s2; this holds for the matrix re-rounded by _round and
\* for _round's fallback.
C5_ReuseSoundness ==
    reusePos = "returned" /\ reuseOut.found =>
        \/ reuseOut.affine = identity /\ SameWithin(reuseS1, reuseS2, reuseTol)
        \/ MapsFriendly(reuseOut.affine)

\* C5 as stated, with one comparison for every return path: M applied to s1
\* (in the form M can be applied to, the affine-friendly one) and compared with
\* s2 passes within the tolerance.
C5_AsStated == reusePos = "returned" /\ reuseOut.found => MapsFriendly(reuseOut.affine)

\* a rotate/scale or non-uniform result that _round returned re-rounded
C5_Witness ==
    /\ reusePos = "returned"
    /\ reuseOut.found
    /\ reuseOut.via \in {"rotate_scale", "non_uniform"}
    /\ reuseOut.affine # reuseOut.unrounded

(***************************************************************************)
(* svg.py: the passes of topicosvg over an SVG object, which is its tree   *)
(* and self.elements, the shapes parsed from it (<<>> is None or empty).   *)
(* A pass gives the object it leaves, and the exception if it raised one.  *)
(***************************************************************************)
svg_root == 1    \* SVG.fromstring numbers the root first

Svg(tree, elements, error) == [tree |-> tree, elements |-> elements, error |-> error]

\* SVG.fromstring: the tree of a document <<tag, attrib, children>>
RECURSIVE fromstring_into(_, _)
RECURSIVE children_into(_, _, _, _)
fromstring_into(tree, doc) ==
    children_into(Append(tree, Element(doc[1], doc[2], <<>>)), Len(tree) + 1, doc[3], 1)
children_into(tree, el, docs, i) ==
    IF i > Len(docs) THEN tree
    ELSE Only([t \in {fromstring_into(tree, docs[i])} |->
             children_into([t EXCEPT ![el].children = Append(@, Len(tree) + 1)], el, docs, i + 1)])
fromstring(doc) == fromstring_into(<<>>, doc)

\* copy.deepcopy(self.svg_root)
deepcopy(tree) == fromstring(tostring(tree, svg_root))

\* self._update_etree() at the head of a pass, then the pass on the tree
Synced(tree, elements, pass(_)) ==
    Only([st \in {_update_etree(tree, elements)} |->
        IF st.error # "" THEN Svg(st.tree, elements, st.error)
        ELSE Only([done \in {pass(st.tree)} |-> Svg(done.tree, <<>>, done.error)])])

\* self._elements(): self.elements if it holds shapes, else the shapes of the tree
loaded(tree, elements) == IF Len(elements) > 0 THEN elements ELSE _elements(tree, svg_root)

\* a pass that rewrites each shape of self.elements
EachShape(tree, elements, rewrite(_)) ==
    Only([els \in {loaded(tree, elements)} |->
        Svg(tree, [i \in 1..Len(els) |-> <<els[i][1], rewrite(els[i][2])>>], "")])

\* el.getparent().remove(el) for the title, desc and metadata elements
remove_title_meta_desc(tree) ==
    LET found == SelectSeq(iter(tree, svg_root),
                           LAMBDA el : tree[el].tag \in {"title", "desc", "metadata", "comment"})
    IN  IF tree[svg_root].tag \in {"title", "desc", "metadata", "comment"}
        THEN Raised(tree, "AttributeError")
        ELSE Ok(remove_each(tree, found, 1))

\* el.getparent().remove(el) for the shapes that will not paint
remove_unpainted_shapes(tree) ==
    Ok(remove_each(tree,
                   SelectSeq(iter(tree, svg_root), LAMBDA el :
                       _is_shape(tree[el].tag) /\ ~might_paint(from_element(tree[el]))),
                   1))

\* with stroke "none" and fill_opacity 1.0
normalize_opacity(shape) ==
    IF shape.fill = "none" THEN shape ELSE [shape EXCEPT !.opacity = DecMul(@, DecOne)]

ndigits == 3    \* the default of topicosvg's ndigits

(***************************************************************************)
(* Documents.                                                              *)
(***************************************************************************)
El(tag, attrib, children) == <<tag, attrib, children>>

\* d="M0,0 L1,0 L1,1 Z"
DTriangle ==
    <<Cmd("M", <<Zero, Zero>>), Cmd("L", <<One, Zero>>), Cmd("L", <<One, One>>), Cmd("Z", <<>>)>>
\* d="m0,0 h1.0004 v1 z"
DRelative ==
    <<Cmd("m", <<Zero, Zero>>), Cmd("h", <<<<2501, 2500>>>>), Cmd("v", <<One>>), Cmd("z", <<>>)>>
\* d="M0,0": moves only
DMove == <<Cmd("M", <<Zero, Zero>>)>>

Half == <<"0", ".", "5">>          \* opacity="0.5"
HalfLong == <<"0", ".", "5", "0">>  \* opacity="0.50"

PathDocs ==
    {El("path", [id |-> "a", d |-> DTriangle], <<>>),
     El("path", [id |-> "b", fill |-> "black", d |-> DTriangle], <<>>),
     El("path", [id |-> "c", fill |-> "red", opacity |-> HalfLong, d |-> DRelative], <<>>),
     El("path", [d |-> DMove], <<>>),
     El("path", [fill |-> "none", d |-> DTriangle], <<>>),
     El("path", [fill |-> "url(#a)", d |-> DTriangle], <<>>)}

GroupAttribs ==
    {NoAttrib, [fill |-> "red"], [opacity |-> Half], [fill |-> "black", id |-> "a"]}

GroupChildren ==
    LET pool == {El("path", [id |-> "b", fill |-> "black", d |-> DTriangle], <<>>),
                 El("path", [id |-> "c", fill |-> "blue", opacity |-> Half, d |-> DRelative], <<>>),
                 El("path", [d |-> DMove], <<>>)}
    IN  {<<p>> : p \in pool} \cup {<<p, q>> : p \in pool, q \in pool}

GroupDocs == {El("g", attrib, children) : attrib \in GroupAttribs, children \in GroupChildren}

NestedDocs ==
    {El("g", outer, <<El("g", inner, <<El("path", [id |-> "b", d |-> DTriangle], <<>>)>> \o more)>>) :
        outer \in {[fill |-> "red"], [opacity |-> Half]},
        inner \in {[fill |-> "black"], [opacity |-> Half]},
        more \in {<<>>, <<El("path", [d |-> DMove], <<>>)>>}}

GradientDoc(id) == El("linearGradient", [id |-> id], <<El("stop", NoAttrib, <<>>)>>)

OtherDocs ==
    {El("title", NoAttrib, <<>>),
     El("text", NoAttrib, <<>>),
     GradientDoc("a"),
     El("defs", NoAttrib, <<GradientDoc("a")>>),
     El("defs", NoAttrib, <<GradientDoc("a"), GradientDoc("b")>>),
     El("defs", NoAttrib, <<El("path", [id |-> "a", d |-> DTriangle], <<>>)>>),
     El("path", [id |-> "a", d |-> DTriangle], <<El("path", [id |-> "b", d |-> DTriangle], <<>>)>>)}

RootChildren ==
    {<<>>}
    \cup {<<g>> : g \in GroupDocs \cup NestedDocs \cup OtherDocs}
    \cup {<<p, q>> : p \in PathDocs, q \in PathDocs}
    \cup {<<o, p>> : o \in OtherDocs, p \in {El("path", [fill |-> "url(#a)", d |-> DTriangle], <<>>),
                                            El("path", [fill |-> "url(#a)", d |-> DMove], <<>>),
                                            El("path", [id |-> "a", d |-> DTriangle], <<>>)}}

Documents ==
    {El(root[1], root[2], children) :
        root \in {<<"svg", NoAttrib>>, <<"svg", [fill |-> "red"]>>, <<"g", NoAttrib>>},
        children \in RootChildren}

(***************************************************************************)
(* topicosvg as steps, one per pass, and a second call on what the first   *)
(* returned.                                                               *)
(***************************************************************************)
\* the documents with a coordinate of four decimals, where ndigits matters
FineDocuments ==
    {El("svg", NoAttrib, <<p, El("path", [id |-> "c", fill |-> "red", opacity |-> HalfLong, d |-> DRelative], <<>>)>>) :
        p \in PathDocs}

PicoInit ==
    /\ picoInput \in Documents
    /\ picoInplace \in BOOLEAN
    /\ picoNdigits \in IF picoInput \in FineDocuments THEN {ndigits, ndigits + 1} ELSE {ndigits}
    /\ picoSelf = fromstring(picoInput)
    /\ picoTree = <<>>
    /\ picoElements = <<>>
    /\ picoPos = "topicosvg"
    /\ picoRun = 1
    /\ picoFirst = <<>>
    /\ picoError = ""
    /\ affA = AffRest.affA
    /\ affB = AffRest.affB
    /\ affOut = AffRest.affOut
    /\ affOp = AffRest.affOp
    /\ pathD = PathRest.pathD
    /\ pathOrig = PathRest.pathOrig
    /\ pathOp = PathRest.pathOp
    /\ pathPrevOp = PathRest.pathPrevOp
    /\ walkOut = PathRest.walkOut
    /\ txtD = TxtRest.txtD
    /\ txtExploded = TxtRest.txtExploded
    /\ txtCmds = TxtRest.txtCmds
    /\ txtD2 = TxtRest.txtD2
    /\ txtCmds2 = TxtRest.txtCmds2
    /\ txtPhase = TxtRest.txtPhase
    /\ reuseS1 = ReuseRest.reuseS1
    /\ reuseS2 = ReuseRest.reuseS2
    /\ reuseF1 = ReuseRest.reuseF1
    /\ reuseF2 = ReuseRest.reuseF2
    /\ reuseTol = ReuseRest.reuseTol
    /\ reusePos = ReuseRest.reusePos
    /\ reuseOut = ReuseRest.reuseOut
    /\ DocRest

PicoOthers == <<affVars, pathVars, txtVars, reuseVars, docVars>>

\* the pass at pos leaves the object done and goes on to next_pos, or raises
Pass(pos, next_pos, done) ==
    /\ picoPos = pos
    /\ \E svg \in {done} :
        /\ picoTree' = svg.tree
        /\ picoElements' = svg.elements
        /\ picoError' = svg.error
        /\ picoPos' = IF svg.error # "" THEN "raised" ELSE next_pos
    /\ UNCHANGED <<picoInput, picoInplace, picoNdigits, picoSelf, picoRun, picoFirst, PicoOthers>>

\* topicosvg(ndigits, inplace): the passes run on self, or on a deep copy of
\* it that is returned in its place
SVG_topicosvg ==
    /\ picoPos = "topicosvg"
    /\ picoTree' = IF picoInplace THEN picoSelf ELSE deepcopy(picoSelf)
    /\ picoElements' = <<>>
    /\ picoPos' = "remove_title_meta_desc"
    /\ UNCHANGED <<picoInput, picoInplace, picoNdigits, picoSelf, picoRun, picoFirst, picoError, PicoOthers>>

\* remove_nonsvg_content, remove_comments and remove_anonymous_symbols find
\* nothing in these documents; remove_title_meta_desc
SVG_remove_title_meta_desc ==
    Pass("remove_title_meta_desc", "shapes_to_paths",
         Synced(picoTree, picoElements, remove_title_meta_desc))

\* apply_style_attributes and resolve_nested_svgs find nothing; shapes_to_paths
\* loads self.elements, as_path of a path being the path
SVG_shapes_to_paths ==
    Pass("shapes_to_paths", "expand_shorthand",
         EachShape(picoTree, picoElements, LAMBDA shape : shape))

SVG_expand_shorthand ==
    Pass("expand_shorthand", "resolve_use",
         EachShape(picoTree, picoElements,
                   LAMBDA shape : [shape EXCEPT !.d = expand_shorthand(explicit_lines(@))]))

\* there is no use element to resolve
SVG_resolve_use ==
    Pass("resolve_use", "simplify", Synced(picoTree, picoElements, Ok))

SVG_simplify ==
    Pass("simplify", "evenodd_to_nonzero_winding",
         Synced(picoTree, picoElements, LAMBDA tree : _simplify(tree, svg_root)))

\* no shape has fill-rule evenodd
SVG_evenodd_to_nonzero_winding ==
    Pass("evenodd_to_nonzero_winding", "remove_unpainted_shapes",
         EachShape(picoTree, picoElements, LAMBDA shape : shape))

SVG_remove_unpainted_shapes ==
    Pass("remove_unpainted_shapes", "normalize_opacity",
         Synced(picoTree, picoElements, remove_unpainted_shapes))

SVG_normalize_opacity ==
    Pass("normalize_opacity", "absolute",
         EachShape(picoTree, picoElements, normalize_opacity))

SVG_absolute ==
    Pass("absolute", "round_floats",
         EachShape(picoTree, picoElements, LAMBDA shape : [shape EXCEPT !.d = absolute(@)]))

\* the ndigits of the call whose passes run: topicosvg(inplace=False) calls
\* svg.topicosvg(inplace=True) on the copy, which leaves ndigits at its default
ndigits_of_call == IF picoInplace THEN picoNdigits ELSE ndigits

SVG_round_floats ==
    Pass("round_floats", "checkpicosvg",
         EachShape(picoTree, picoElements, LAMBDA shape : round_floats(shape, ndigits_of_call)))

\* nano_violations = self.checkpicosvg(); raise ValueError if there are any
SVG_checkpicosvg ==
    Pass("checkpicosvg", "returned",
         Synced(picoTree, picoElements,
                LAMBDA tree : IF Len(checkpicosvg(tree, svg_root)) > 0
                              THEN Raised(tree, "ValueError: Unable to convert to picosvg")
                              ELSE Ok(tree)))

\* the caller runs topicosvg again, on the SVG the first call returned
Again ==
    /\ picoPos = "returned"
    /\ picoRun = 1
    /\ picoFirst' = tostring(picoTree, svg_root)
    /\ picoSelf' = picoTree
    /\ picoRun' = 2
    /\ picoPos' = "topicosvg"
    /\ UNCHANGED <<picoInput, picoInplace, picoNdigits, picoTree, picoElements, picoError, PicoOthers>>

PicoNext ==
    \/ SVG_topicosvg
    \/ SVG_remove_title_meta_desc
    \/ SVG_shapes_to_paths
    \/ SVG_expand_shorthand
    \/ SVG_resolve_use
    \/ SVG_simplify
    \/ SVG_evenodd_to_nonzero_winding
    \/ SVG_remove_unpainted_shapes
    \/ SVG_normalize_opacity
    \/ SVG_absolute
    \/ SVG_round_floats
    \/ SVG_checkpicosvg
    \/ Again

SpecPico == PicoInit /\ [][PicoNext]_vars

(***************************************************************************)
(* The documents topicosvg returns.                                        *)
(***************************************************************************)
\* the elements of the document
Elements(tree) == {iter(tree, svg_root)[i] : i \in 1..Len(iter(tree, svg_root))}

HasId(tree, el) == "id" \in DOMAIN tree[el].attrib

\* C10: a copy-if-absent attribute that an element specifies itself is never
\* replaced by an ancestor's value, also when its own value is the default:
\* a path of the input that specifies fill has, in what topicosvg returns,
\* the fill it specified (an omitted fill being the default, black).  The
\* path is followed from the input to the output by its id, in documents
\* whose root is svg.
C10_OwnValueKept ==
    (picoPos = "returned" /\ picoRun = 1 /\ picoInput[1] = "svg") =>
        LET input == fromstring(picoInput)
        IN  \A src \in Elements(input) : \A el \in Elements(picoTree) :
                (/\ input[src].tag = "path"
                 /\ "fill" \in DOMAIN input[src].attrib
                 /\ HasId(input, src)
                 /\ WithId(input, svg_root, input[src].attrib["id"]) = {src}
                 /\ picoTree[el].tag = "path"
                 /\ HasId(picoTree, el)
                 /\ picoTree[el].attrib["id"] = input[src].attrib["id"])
                    => attrib_get(picoTree[el].attrib, "fill", ATTRIB_DEFAULTS["fill"])
                           = input[src].attrib["fill"]

\* a root svg with at most one defs, a child of the root; defs holds only
\* gradients, and they only stops; every other element is a path or a g
\* whose parent is the root or a g; no id is carried by two elements
Canonical(tree) ==
    LET els == Elements(tree)
        defs == {el \in els : _is_defs(tree[el].tag)}
        gradients == {el \in els : _is_gradient(tree[el].tag) /\ getparent(tree, el) \in defs}
    IN  /\ tree[svg_root].tag = "svg"
        /\ Cardinality(defs) <= 1
        /\ \A el \in els \ {svg_root} :
            LET parent == getparent(tree, el)
            IN  IF el \in defs THEN parent = svg_root
                ELSE IF parent \in defs THEN el \in gradients
                ELSE IF parent \in gradients THEN tree[el].tag = "stop"
                ELSE /\ tree[el].tag \in {"path", "g"}
                     /\ parent = svg_root \/ _is_group(tree[parent].tag)
        /\ \A e1 \in els : \A e2 \in els \ {e1} :
            HasId(tree, e1) /\ HasId(tree, e2) => tree[e1].attrib["id"] # tree[e2].attrib["id"]

\* C2: whenever topicosvg returns normally, inplace or not, the resulting
\* tree is canonical: a root svg, at most one defs at /svg[0]/defs[0] holding
\* only gradients of stops, paths and groups reached through groups
\* otherwise, and no id carried by two elements.
C2_CanonicalOutput == picoPos = "returned" => Canonical(picoTree)

\* C1: for every document on which topicosvg succeeds, running topicosvg
\* again on that output also succeeds and leaves the tree unchanged: no
\* element is removed and no attribute rewritten.  Stated for the documents
\* whose root is svg.
C1_Idempotence ==
    (picoRun = 2 /\ picoPos \in {"returned", "raised"} /\ picoInput[1] = "svg") =>
        (picoPos = "returned" /\ tostring(picoTree, svg_root) = picoFirst)

(***************************************************************************)
(* Traversal.  A caller consumes depth_first(), then breadth_first(), one  *)
(* context per step of the generator, and then calls checkpicosvg().       *)
(***************************************************************************)
TransformCall(op, args) == [op |-> op, args |-> args]

Translate1 == <<TransformCall("translate", <<One>>)>>                 \* "translate(1)"
Scale2 == <<TransformCall("scale", <<Rat(2)>>)>>                      \* "scale(2)"
TranslateScale ==                                                     \* "translate(0, 1) scale(2, 1)"
    <<TransformCall("translate", <<Zero, One>>), TransformCall("scale", <<Rat(2), One>>)>>
Quarter == <<TransformCall("matrix", <<Zero, One, RNeg(One), Zero, Zero, Zero>>)>>  \* "matrix(0 1 -1 0 0 0)"

TravLeaves ==
    {El("path", [d |-> DTriangle], <<>>),
     El("path", [transform |-> Scale2, d |-> DTriangle], <<>>),
     El("path", [transform |-> Quarter, fill |-> "red", d |-> DTriangle], <<>>),
     El("linearGradient", [transform |-> Scale2, gradientTransform |-> Translate1], <<>>),
     El("!--", NoAttrib, <<>>)}

TravGroupAttribs ==
    {NoAttrib, [transform |-> Translate1], [transform |-> TranslateScale, opacity |-> Half]}

TravGroups ==
    {El("g", attrib, children) :
        attrib \in TravGroupAttribs,
        children \in {<<p>> : p \in TravLeaves} \cup {<<p, q>> : p \in TravLeaves, q \in TravLeaves}}

TravNested ==
    {El("g", outer, <<El("g", inner, <<El("!--", NoAttrib, <<>>), first, El("path", [d |-> DMove], <<>>)>>),
                      second>>) :
        outer \in TravGroupAttribs \ {NoAttrib}, inner \in TravGroupAttribs \ {NoAttrib},
        first \in TravLeaves, second \in TravLeaves}

IdPool ==
    {El("path", [id |-> "a", d |-> DTriangle], <<>>),
     El("path", [id |-> "b", d |-> DTriangle], <<>>),
     El("path", [d |-> DTriangle], <<>>),
     El("g", [id |-> "a", opacity |-> Half], <<El("path", [id |-> "a", d |-> DTriangle], <<>>)>>),
     El("text", [id |-> "a"], <<>>)}

MaxSiblings == 3    \* children of the root in the documents of repeated ids

IdDocs == UNION {[1..n -> IdPool] : n \in 1..MaxSiblings}

TravDocuments ==
    {El("svg", NoAttrib, <<g>>) : g \in TravGroups \cup TravNested}
    \cup {El("svg", [transform |-> Scale2], <<g, leaf>>) :
            g \in {El("g", [transform |-> Translate1], <<El("path", [d |-> DTriangle], <<>>)>>)},
            leaf \in TravLeaves}
    \cup {El("svg", NoAttrib, <<El("defs", NoAttrib, <<>>)>> \o children) : children \in IdDocs}

TravInit ==
    /\ docInput \in TravDocuments
    /\ docTree = fromstring(docInput)
    /\ docPos = "depth_first"
    /\ docFrontier = root_frontier(docTree, svg_root)
    /\ docOut = <<>>
    /\ docFirst = <<>>
    /\ docError = ""
    /\ affA = AffRest.affA
    /\ affB = AffRest.affB
    /\ affOut = AffRest.affOut
    /\ affOp = AffRest.affOp
    /\ pathD = PathRest.pathD
    /\ pathOrig = PathRest.pathOrig
    /\ pathOp = PathRest.pathOp
    /\ pathPrevOp = PathRest.pathPrevOp
    /\ walkOut = PathRest.walkOut
    /\ txtD = TxtRest.txtD
    /\ txtExploded = TxtRest.txtExploded
    /\ txtCmds = TxtRest.txtCmds
    /\ txtD2 = TxtRest.txtD2
    /\ txtCmds2 = TxtRest.txtCmds2
    /\ txtPhase = TxtRest.txtPhase
    /\ reuseS1 = ReuseRest.reuseS1
    /\ reuseS2 = ReuseRest.reuseS2
    /\ reuseF1 = ReuseRest.reuseF1
    /\ reuseF2 = ReuseRest.reuseF2
    /\ reuseTol = ReuseRest.reuseTol
    /\ reusePos = ReuseRest.reusePos
    /\ reuseOut = ReuseRest.reuseOut
    /\ picoInput = PicoRest.picoInput
    /\ picoInplace = PicoRest.picoInplace
    /\ picoNdigits = PicoRest.picoNdigits
    /\ picoSelf = PicoRest.picoSelf
    /\ picoTree = PicoRest.picoTree
    /\ picoElements = PicoRest.picoElements
    /\ picoPos = PicoRest.picoPos
    /\ picoRun = PicoRest.picoRun
    /\ picoFirst = PicoRest.picoFirst
    /\ picoError = PicoRest.picoError

DocOthers == <<affVars, pathVars, txtVars, reuseVars, picoVars>>

\* one round of the while loop of _traverse: the context taken is yielded
\* and the contexts of its children join the frontier
Traverse(order) ==
    /\ docPos = order
    /\ Len(docFrontier) > 0
    /\ \E context \in {next_fn(order, docFrontier)} :
        /\ docOut' = Append(docOut, context)
        /\ docFrontier' = append_fn(order, docFrontier, new_entries(docTree, context))
    /\ UNCHANGED <<docInput, docTree, docPos, docFirst, docError, DocOthers>>

SVG_depth_first == Traverse("depth_first")
SVG_breadth_first == Traverse("breadth_first")

\* the frontier is empty: depth_first is exhausted and the caller starts
\* breadth_first
DepthFirstDone ==
    /\ docPos = "depth_first"
    /\ Len(docFrontier) = 0
    /\ docFirst' = docOut
    /\ docOut' = <<>>
    /\ docFrontier' = root_frontier(docTree, svg_root)
    /\ docPos' = "breadth_first"
    /\ UNCHANGED <<docInput, docTree, docError, DocOthers>>

BreadthFirstDone ==
    /\ docPos = "breadth_first"
    /\ Len(docFrontier) = 0
    /\ docPos' = "traversed"
    /\ UNCHANGED <<docInput, docTree, docFrontier, docOut, docFirst, docError, DocOthers>>

\* checkpicosvg() of the document; no shape is cached, _update_etree returns
Checkpicosvg ==
    /\ docPos = "traversed"
    /\ docOut' = checkpicosvg(docTree, svg_root)
    /\ docPos' = "returned"
    /\ UNCHANGED <<docInput, docTree, docFrontier, docFirst, docError, DocOthers>>

TravNext ==
    \/ SVG_depth_first
    \/ DepthFirstDone
    \/ SVG_breadth_first
    \/ BreadthFirstDone
    \/ Checkpicosvg

SpecTraverse == TravInit /\ [][TravNext]_vars

(***************************************************************************)
(* Claims about the traversal.                                             *)
(***************************************************************************)
Traversing == docPos \in {"depth_first", "breadth_first", "traversed"}

\* the transform an element's own attribute stands for
OwnTransform(el) ==
    LET raw == attrib_get(el.attrib,
                          IF _is_gradient(el.tag) THEN "gradientTransform" ELSE "transform",
                          <<>>)
    IN  IF Len(raw) > 0 THEN parse_svg_transform(raw) ELSE identity

HasOwnTransform(el) == OwnTransform(el) # identity

\* the context yielded for the parent of the element of yielded[i]
ParentContext(yielded, i) ==
    yielded[CHOOSE j \in 1..Len(yielded) :
                yielded[j].element = getparent(docTree, yielded[i].element)]

ParentYielded(yielded, i) ==
    \E j \in 1..(i - 1) : yielded[j].element = getparent(docTree, yielded[i].element)

\* C11 as stated: the transform of every yielded context is
\* compose_ltr([parent context's transform, the element's own transform]),
\* and the parent's transform when the element has none.
C11_ParentFirst ==
    Traversing =>
        \A i \in 1..Len(docOut) :
            getparent(docTree, docOut[i].element) # 0 =>
                /\ ParentYielded(docOut, i)
                /\ docOut[i].transform =
                       IF HasOwnTransform(docTree[docOut[i].element])
                       THEN compose_ltr(<<ParentContext(docOut, i).transform,
                                          OwnTransform(docTree[docOut[i].element])>>)
                       ELSE ParentContext(docOut, i).transform

\* C11 amended: the transform of every yielded context below the root is
\* compose_ltr([the element's own transform, parent context's transform]),
\* the element's own transform being applied first; it is the parent's when
\* the element has none, a gradient's own transform is its gradientTransform,
\* and the root's context holds the identity.
C11_OwnFirst ==
    Traversing =>
        \A i \in 1..Len(docOut) :
            IF getparent(docTree, docOut[i].element) = 0
            THEN docOut[i].transform = identity
            ELSE /\ ParentYielded(docOut, i)
                 /\ docOut[i].transform =
                        IF HasOwnTransform(docTree[docOut[i].element])
                        THEN compose_ltr(<<OwnTransform(docTree[docOut[i].element]),
                                           ParentContext(docOut, i).transform>>)
                        ELSE ParentContext(docOut, i).transform
                 /\ \A P \in {Point(One, Zero), Point(Zero, One)} :
                        map_point(docOut[i].transform, P) =
                            map_point(ParentContext(docOut, i).transform,
                                      map_point(OwnTransform(docTree[docOut[i].element]), P))

\* a context was yielded whose element and parent both transform, in an
\* order that matters
C11_Witness ==
    /\ Traversing
    /\ \E i \in 1..Len(docOut) :
        /\ getparent(docTree, docOut[i].element) # 0
        /\ ParentYielded(docOut, i)
        /\ HasOwnTransform(docTree[docOut[i].element])
        /\ compose_ltr(<<OwnTransform(docTree[docOut[i].element]),
                         ParentContext(docOut, i).transform>>)
               # compose_ltr(<<ParentContext(docOut, i).transform,
                               OwnTransform(docTree[docOut[i].element])>>)
    /\ \E i \in 1..Len(docOut) :
        /\ _is_gradient(docTree[docOut[i].element].tag)
        /\ "transform" \in DOMAIN docTree[docOut[i].element].attrib

\* the elements of the document that are not comments, in document order
DocumentOrder == SelectSeq(iter(docTree, svg_root), LAMBDA el : ~is_Comment(docTree[el].tag))

Range(s) == {s[i] : i \in 1..Len(s)}

ElementsOf(yielded) == [i \in 1..Len(yielded) |-> yielded[i].element]

NoRepeat(s) == \A i \in 1..Len(s) : \A j \in 1..Len(s) : s[i] = s[j] => i = j

\* the elements at and below el that a traversal is to yield
Below(el) == {x \in Range(iter(docTree, el)) : ~is_Comment(docTree[x].tag)}

PlaceOf(el) == CHOOSE k \in 1..Len(DocumentOrder) : DocumentOrder[k] = el

Checked(context) == \A k \in 1..Len(context.path) : Allowed(SubSeq(context.path, 1, k))

CarriesId(tree, context, id) ==
    /\ Checked(context)
    /\ HasId(tree, context.element)
    /\ tree[context.element].attrib["id"] = id

\* C18: checkpicosvg returns, for every element whose id an earlier element
\* in traversal order carried, one "reuses id" violation that names the
\* element's path and the path of the first element that carried the id.
C18_FirstSeen ==
    docPos = "returned" =>
        LET contexts == breadth_first(docTree, svg_root)
        IN  \A i \in 1..Len(contexts) : \A id \in {"a", "b"} :
                (/\ CarriesId(docTree, contexts[i], id)
                 /\ \E j \in 1..(i - 1) : CarriesId(docTree, contexts[j], id))
                    => LET first == CHOOSE j \in 1..(i - 1) :
                                        /\ CarriesId(docTree, contexts[j], id)
                                        /\ \A k \in 1..(j - 1) : ~CarriesId(docTree, contexts[k], id)
                           reports == {n \in 1..Len(docOut) :
                                          /\ docOut[n][1] = "BadElement: reuses id"
                                          /\ docOut[n][2] = contexts[i].path}
                       IN  /\ Cardinality(reports) = 1
                           /\ \A n \in reports : docOut[n] = <<"BadElement: reuses id", contexts[i].path,
                                                               id, contexts[first].path>>

(***************************************************************************)
(* Claims about what topicosvg leaves.                                     *)
(***************************************************************************)
\* 0 < float(text) < 1
StrictlyBetweenZeroAndOne(text) ==
    LET value == float(text)
    IN  value # DecZero /\ value.sign > 0 /\ value # DecOne /\ ~DecGtOne(value)

\* C13: every g that topicosvg leaves in a document whose root is svg is an
\* opacity-only wrapper: opacity is its only attribute, with a value
\* strictly between 0 and 1, and it has more than one child.
C13_GroupRule ==
    (picoPos = "returned" /\ picoInput[1] = "svg") =>
        \A el \in Elements(picoTree) :
            _is_group(picoTree[el].tag) =>
                /\ DOMAIN picoTree[el].attrib = {"opacity"}
                /\ StrictlyBetweenZeroAndOne(picoTree[el].attrib["opacity"])
                /\ Len(picoTree[el].children) > 1

Gradients(tree) == {el \in Elements(tree) : _is_gradient(tree[el].tag)}

\* the shapes of the tree whose fill is url(#id)
FilledBy(tree, id) ==
    {el \in Elements(tree) :
        /\ _is_shape(tree[el].tag)
        /\ IsUrl(attrib_get(tree[el].attrib, "fill", ""))
        /\ _id_of_target(tree[el].attrib["fill"]) = id}

C19_NdigitsHonoured ==
    [][(picoPos = "round_floats" /\ picoPos' = "checkpicosvg") =>
           LET shapes == loaded(picoTree, picoElements)
           IN  picoElements' =
                   [i \in 1..Len(shapes) |-> <<shapes[i][1], round_floats(shapes[i][2], picoNdigits)>>]]_vars

(***************************************************************************)
(* C20: shape matching is total.  Every path of Shapes1 and Shapes2 starts *)
(* with a move; affine_between returns an affine or None for each pair and *)
(* never raises, whatever the numbers of commands of s1 and s2.            *)
(***************************************************************************)
StartsWithMove(path) == Len(path) > 0 /\ path[1].cmd \in {"M", "m"}

C20_NeverRaises ==
    (StartsWithMove(reuseS1) /\ StartsWithMove(reuseS2)) => reusePos # "raised"

(***************************************************************************)
(* svg.py: _apply_gradient_template(gradient) on a document of gradients,  *)
(* one step per activation: docFrontier is the call stack, each frame the  *)
(* gradient of the call and where the call is ("call" at its head, "copy"  *)
(* after the lookup of the template and the recursive call).  The value of *)
(* an xlink:href attribute is the sequence of its characters.              *)
(***************************************************************************)
_xlink_href_attr_name == "xlink:href"

\* the characters of the ids of the documents
chars ==
    [a |-> <<"a">>, b |-> <<"b">>, c |-> <<"c">>, g |-> <<"g">>, p |-> <<"p">>, q |-> <<"q">>, s |-> <<"s">>,
     u |-> <<"u">>]

\* self.xpath('.//svg:*[@id="{ref}"]'): the elements below the root with the id
xpath_id(tree, ref) ==
    {el \in 2..Len(tree) : "id" \in DOMAIN tree[el].attrib /\ chars[tree[el].attrib["id"]] = ref}

\* ref.startswith("#")
startswith_hash(ref) == Len(ref) > 0 /\ ref[1] = "#"

\* ref[1:].strip()
fragment(ref) == strip(Tail(ref))

\* template.attrib.get(href_attr) is truthy
has_href(el) ==
    _xlink_href_attr_name \in DOMAIN el.attrib /\ Len(el.attrib[_xlink_href_attr_name]) > 0

Frame(gradient, pc, template) == [gradient |-> gradient, pc |-> pc, template |-> template]

\* the exception the head of the call raises, "" if none
template_error(tree, gradient) ==
    LET ref == tree[gradient].attrib[_xlink_href_attr_name]
        found == xpath_id(tree, fragment(ref))
    IN  IF ~startswith_hash(ref) THEN "ValueError: Only use #fragment supported"
        ELSE IF Cardinality(found) # 1 THEN "ValueError: Expected matches in range(1, 2)"
        ELSE IF ~_is_gradient(tree[CHOOSE el \in found : TRUE].tag)
             THEN "ValueError: Referenced element has unexpected tag"
        ELSE ""

\* self.xpath_one(...) where it does not raise
template_of(tree, gradient) ==
    CHOOSE el \in xpath_id(tree, fragment(tree[gradient].attrib[_xlink_href_attr_name])) : TRUE

\* for attr_name in _GRADIENT_FIELDS[...]: copy what the template has and
\* the gradient has not
copy_fields(attrib, template_attrib) ==
    [n \in DOMAIN attrib \cup (_GRADIENT_FIELDS \cap DOMAIN template_attrib) |->
        IF n \in DOMAIN attrib THEN attrib[n] ELSE template_attrib[n]]

\* if len(gradient) == 0: a copy of each stop of the template, without its
\* id, is appended to the gradient
RECURSIVE copy_stops(_, _, _, _)
copy_stops(tree, gradient, stops, i) ==
    IF i > Len(stops) THEN tree
    ELSE Only([t \in {NewElement(tree, Element(tree[stops[i]].tag, _del_attrs(tree[stops[i]].attrib, {"id"}), <<>>))} |->
              copy_stops([t EXCEPT ![gradient].children = Append(@, Len(t))],
                                   gradient, stops, i + 1)])

\* the body of the call after the recursion
apply_template(tree, gradient, template) ==
    Only([t1 \in {[tree EXCEPT ![gradient].attrib = copy_fields(@, tree[template].attrib)]} |->
    Only([t2 \in {IF Len(t1[gradient].children) = 0
        THEN copy_stops(t1, gradient, t1[template].children, 1) ELSE t1} |->
        [t2 EXCEPT ![gradient].attrib = _del_attrs(@, {_xlink_href_attr_name})]])])

MaxDepth == 4    \* the frames the interpreter allows before RecursionError

Href(ref) == [n \in {_xlink_href_attr_name} |-> ref]

Hrefs ==
    {NoAttrib, Href(<<"#", "a">>), Href(<<"#", "b">>), Href(<<"#", "c">>), Href(<<"#", " ", "c">>),
     Href(<<"#", "z">>), Href(<<"b">>), Href(<<"#", "p">>)}

\* attrib.update(more)
update(attrib, more) ==
    [n \in DOMAIN attrib \cup DOMAIN more |-> IF n \in DOMAIN more THEN more[n] ELSE attrib[n]]

\* <linearGradient id="a"/> <linearGradient id="b" x2="1"><stop id="s"/></linearGradient>
\* <radialGradient id="c" x2="2"/> <path id="p" d="M0,0"/>, each gradient
\* with or without an xlink:href
TemplateDocuments ==
    {El("svg", NoAttrib,
        <<El("linearGradient", update([id |-> "a"], ha), <<>>),
          El("linearGradient", update([id |-> "b", x2 |-> <<"1">>], hb), <<El("stop", [id |-> "s"], <<>>)>>),
          El("radialGradient", update([id |-> "c", x2 |-> <<"2">>], hc), <<>>),
          El("path", [id |-> "p", d |-> DMove], <<>>)>>) :
        ha \in Hrefs, hb \in Hrefs, hc \in Hrefs}

\* every variable of the other operations at rest
DocOthersRest ==
    /\ affA = AffRest.affA
    /\ affB = AffRest.affB
    /\ affOut = AffRest.affOut
    /\ affOp = AffRest.affOp
    /\ pathD = PathRest.pathD
    /\ pathOrig = PathRest.pathOrig
    /\ pathOp = PathRest.pathOp
    /\ pathPrevOp = PathRest.pathPrevOp
    /\ walkOut = PathRest.walkOut
    /\ txtD = TxtRest.txtD
    /\ txtExploded = TxtRest.txtExploded
    /\ txtCmds = TxtRest.txtCmds
    /\ txtD2 = TxtRest.txtD2
    /\ txtCmds2 = TxtRest.txtCmds2
    /\ txtPhase = TxtRest.txtPhase
    /\ reuseS1 = ReuseRest.reuseS1
    /\ reuseS2 = ReuseRest.reuseS2
    /\ reuseF1 = ReuseRest.reuseF1
    /\ reuseF2 = ReuseRest.reuseF2
    /\ reuseTol = ReuseRest.reuseTol
    /\ reusePos = ReuseRest.reusePos
    /\ reuseOut = ReuseRest.reuseOut
    /\ picoInput = PicoRest.picoInput
    /\ picoInplace = PicoRest.picoInplace
    /\ picoNdigits = PicoRest.picoNdigits
    /\ picoSelf = PicoRest.picoSelf
    /\ picoTree = PicoRest.picoTree
    /\ picoElements = PicoRest.picoElements
    /\ picoPos = PicoRest.picoPos
    /\ picoRun = PicoRest.picoRun
    /\ picoFirst = PicoRest.picoFirst
    /\ picoError = PicoRest.picoError

\* self._apply_gradient_template(gradient) is called on a gradient of the document
TemplateInit ==
    /\ docInput \in TemplateDocuments
    /\ docTree = fromstring(docInput)
    /\ docPos = "_apply_gradient_template"
    /\ \E gradient \in {el \in 1..Len(docTree) : _is_gradient(docTree[el].tag)} :
           docFrontier = <<Frame(gradient, "call", 0)>>
    /\ docOut = <<>>
    /\ docFirst = <<>>
    /\ docError = ""
    /\ DocOthersRest

top == docFrontier[Len(docFrontier)]

\* the call on top of the stack returns to its caller
return_to_caller ==
    /\ docFrontier' = SubSeq(docFrontier, 1, Len(docFrontier) - 1)
    /\ docPos' = IF Len(docFrontier) = 1 THEN "returned" ELSE docPos

Calling == docPos = "_apply_gradient_template" /\ top.pc = "call"

\* if href_attr not in gradient.attrib: return
TemplateNop ==
    /\ Calling
    /\ _xlink_href_attr_name \notin DOMAIN docTree[top.gradient].attrib
    /\ return_to_caller
    /\ UNCHANGED <<docInput, docTree, docOut, docFirst, docError, DocOthers>>

\* the ValueErrors: no #fragment, not exactly one element of that id, not a gradient
TemplateRaise ==
    /\ Calling
    /\ _xlink_href_attr_name \in DOMAIN docTree[top.gradient].attrib
    /\ template_error(docTree, top.gradient) # ""
    /\ docError' = template_error(docTree, top.gradient)
    /\ docPos' = "raised"
    /\ UNCHANGED <<docInput, docTree, docFrontier, docOut, docFirst, DocOthers>>

HasTemplate ==
    /\ Calling
    /\ _xlink_href_attr_name \in DOMAIN docTree[top.gradient].attrib
    /\ template_error(docTree, top.gradient) = ""

\* if template.attrib.get(href_attr): self._apply_gradient_template(template)
TemplateRecurse ==
    /\ HasTemplate
    /\ \E template \in {template_of(docTree, top.gradient)} :
        /\ has_href(docTree[template])
        /\ IF Len(docFrontier) < MaxDepth
           THEN /\ docFrontier' = [docFrontier EXCEPT ![Len(docFrontier)] = Frame(top.gradient, "copy", template)]
                                  \o <<Frame(template, "call", 0)>>
                /\ UNCHANGED <<docPos, docError>>
           ELSE /\ docError' = "RecursionError: maximum recursion depth exceeded"
                /\ docPos' = "raised"
                /\ UNCHANGED docFrontier
    /\ UNCHANGED <<docInput, docTree, docOut, docFirst, DocOthers>>

\* the fields and stops of the template are copied and the href is deleted:
\* at once when the template has no href, after the recursive call otherwise
TemplateCopy ==
    /\ docPos = "_apply_gradient_template"
    /\ \E template \in {IF top.pc = "copy" THEN top.template
                        ELSE IF HasTemplate THEN template_of(docTree, top.gradient) ELSE 0} :
        /\ template # 0
        /\ top.pc = "call" => ~has_href(docTree[template])
        /\ docTree' = apply_template(docTree, top.gradient, template)
    /\ return_to_caller
    /\ UNCHANGED <<docInput, docOut, docFirst, docError, DocOthers>>

TemplateNext == TemplateNop \/ TemplateRaise \/ TemplateRecurse \/ TemplateCopy

SpecTemplate == TemplateInit /\ [][TemplateNext]_vars

(***************************************************************************)
(* C15: cyclic gradient templates are reported.  The recursion is bounded  *)
(* by the document: no gradient has two calls of _apply_gradient_template  *)
(* active at once, and a call never ends in the interpreter's              *)
(* RecursionError; a cycle of hrefs ends in a reported error instead.      *)
(***************************************************************************)
C15_CyclesReported ==
    /\ docPos = "_apply_gradient_template" =>
           \A i, j \in 1..Len(docFrontier) : i # j => docFrontier[i].gradient # docFrontier[j].gradient
    /\ docError # "RecursionError: maximum recursion depth exceeded"

(***************************************************************************)
(* svg.py: resolve_use(inplace=True), one step per round of the while loop *)
(* of _resolve_use.  docFirst holds el_by_id.  The x and y of a use hold   *)
(* the numbers their texts read as.  The g that _resolve_use builds around *)
(* each copy has one child, so _try_remove_group always removes it: of the *)
(* g the model keeps the attrib only.                                      *)
(***************************************************************************)
\* Affine2D.tostring, as the calls the text holds
Affine2D_tostring(self) ==
    IF self = translate(identity, self.e, self.f)
    THEN <<[op |-> "translate", args |-> <<self.e, self.f>>]>>
    ELSE <<[op |-> "matrix", args |-> <<self.a, self.b, self.c, self.d, self.e, self.f>>]>>

\* the child's attrib after the handler of "transform"; the del of the
\* source is on a name the child has whenever the attrib's transform is not
\* the identity
_inherit_matrix_multiply(attrib, child, attr_name) ==
    LET own == IF attr_name \in DOMAIN attrib THEN parse_svg_transform(attrib[attr_name]) ELSE identity
        transform == IF attr_name \in DOMAIN child
                     THEN compose_ltr(<<parse_svg_transform(child[attr_name]), own>>)
                     ELSE own
    IN  IF transform # identity THEN attrib_set(child, attr_name, Affine2D_tostring(transform))
        ELSE _del_attrs(child, {attr_name})

attrib_not_copied == {"x", "y", "width", "height", "transform", _xlink_href_attr_name}

\* el_by_id = {el.attrib["id"]: el for el in self.xpath(".//svg:*[@id]")}:
\* of the elements of one id the dict keeps the last in document order
last_with(tree, order, id) ==
    order[CHOOSE i \in 1..Len(order) :
            /\ attrib_get(tree[order[i]].attrib, "id", "") = id
            /\ \A j \in (i + 1)..Len(order) : attrib_get(tree[order[j]].attrib, "id", "") # id]

el_by_id(tree) ==
    Only([order \in {Tail(iter(tree, svg_root))} |->
        [id \in {tree[order[i]].attrib["id"] : i \in {i \in 1..Len(order) : "id" \in DOMAIN tree[order[i]].attrib}} |->
            last_with(tree, order, id)]])

\* el_by_id.get(ref[1:], None), 0 for None
target_of(by_id, ref) ==
    IF \E id \in DOMAIN by_id : chars[id] = Tail(ref)
    THEN by_id[CHOOSE id \in DOMAIN by_id : chars[id] = Tail(ref)]
    ELSE 0

\* A plausible slip: the copy keeps the ids of the target.
del_ids_skipped(tree, first) == tree

\* for el in new_el.getiterator("*"): del el.attrib["id"], on the elements
\* of the copy, which are the elements from first on
del_ids(tree, first) ==
    [el \in 1..Len(tree) |->
        IF el >= first THEN [tree[el] EXCEPT !.attrib = _del_attrs(@, {"id"})] ELSE tree[el]]

\* the attrib of the g: the transform if it is not the identity, and the
\* attributes of the use that are copied
group_attrib(use_attrib) ==
    LET placed == translate(identity, attrib_get(use_attrib, "x", Zero), attrib_get(use_attrib, "y", Zero))
        affine == IF "transform" \in DOMAIN use_attrib
                  THEN compose_ltr(<<placed, parse_svg_transform(use_attrib["transform"])>>)
                  ELSE placed
        copied == [n \in DOMAIN use_attrib \ attrib_not_copied |-> use_attrib[n]]
    IN  IF affine # identity THEN attrib_set(copied, "transform", Affine2D_tostring(affine)) ELSE copied

\* _inherit_attrib(group.attrib, new_el): fill, opacity and transform have
\* handlers, id is not inherited
inherit_from_group(attrib, child, tag) ==
    Only([inherited \in {_inherit_attrib(attrib, child, tag, {"transform"})} |->
        IF "transform" \in DOMAIN attrib /\ ~_is_gradient(tag) /\ tag # "stop"
        THEN _inherit_matrix_multiply(attrib, inherited, "transform")
        ELSE inherited])

\* one round of the for loop: the copy of the target joins the tree, not yet
\* attached, and the swap is noted
resolve_one(tree, by_id, use_el) ==
    LET ref == attrib_get(tree[use_el].attrib, _xlink_href_attr_name, <<>>)
        target == target_of(by_id, ref)
        new_el == Len(tree) + 1
    IN  IF ~startswith_hash(ref) THEN Raised(tree, "ValueError: Only use #fragment supported")
        ELSE IF target = 0 THEN Raised(tree, "ValueError: No element has id")
        ELSE Only([copied \in {del_ids(fromstring_into(tree, tostring(tree, target)), new_el)} |->
                 Ok([copied EXCEPT ![new_el].attrib =
                        inherit_from_group(group_attrib(tree[use_el].attrib), @, copied[new_el].tag)])])

\* old_el.getparent().replace(old_el, new_el)
replace(tree, old_el, new_el) ==
    [tree EXCEPT ![getparent(tree, old_el)].children =
        [i \in 1..Len(@) |-> IF @[i] = old_el THEN new_el ELSE @[i]]]

RECURSIVE resolve_round(_, _, _, _, _)
resolve_round(st, by_id, use_els, i, swaps) ==
    IF st.error # "" THEN st
    ELSE IF i > Len(use_els)
    THEN IF Len(swaps) = 0 THEN st
         ELSE resolve_round(Ok(replace(st.tree, swaps[1][1], swaps[1][2])), by_id, use_els, i, Tail(swaps))
    ELSE Only([next_st \in {resolve_one(st.tree, by_id, use_els[i])} |->
             resolve_round(next_st, by_id, use_els, i + 1,
                           Append(swaps, <<use_els[i], Len(st.tree) + 1>>))])

\* list(self.xpath(".//svg:use", el=scope_el))
use_els_of(tree) == SelectSeq(Tail(iter(tree, svg_root)), LAMBDA el : tree[el].tag = "use")

MaxElements == 24    \* the elements a tree may hold for a further round to start

\* <path id="p" d="M0,0"/>
UseTargetPath == El("path", [id |-> "p", d |-> DMove], <<>>)
\* <g id="g"><path id="q" fill="black" d="M0,0 L1,0 L1,1 Z"/><use xlink:href="#p"/></g>
UseTargetGroup ==
    El("g", [id |-> "g"],
       <<El("path", [id |-> "q", fill |-> "black", d |-> DTriangle], <<>>),
         El("use", Href(<<"#", "p">>), <<>>)>>)
\* <g id="c"><use xlink:href="#c"/></g>: the use is inside its target
UseTargetCycle == El("g", [id |-> "c"], <<El("use", Href(<<"#", "c">>), <<>>)>>)

UsePool ==
    {El("use", Href(<<"#", "p">>), <<>>),
     El("use", update([id |-> "u", x |-> One], Href(<<"#", "g">>)), <<>>),
     El("use", update([fill |-> "red", opacity |-> Half, transform |-> <<TransformCall("scale", <<Rat(2)>>)>>],
                      Href(<<"#", "g">>)), <<>>),
     El("use", update([y |-> Rat(2), transform |-> <<TransformCall("translate", <<Zero, Rat(-2)>>)>>],
                      Href(<<"#", "u">>)), <<>>),
     El("use", Href(<<"#", "z">>), <<>>),
     El("use", Href(<<"p">>), <<>>),
     El("use", NoAttrib, <<>>)}

UseDocuments ==
    {El("svg", NoAttrib, <<UseTargetPath>>),
     El("svg", NoAttrib, <<UseTargetPath, UseTargetCycle>>),
     El("svg", NoAttrib, <<UseTargetPath, El("path", [id |-> "p", d |-> DTriangle], <<>>),
                           El("use", Href(<<"#", "p">>), <<>>)>>)}
    \cup {El("svg", NoAttrib, <<UseTargetPath, UseTargetGroup>> \o uses) :
            uses \in {<<u>> : u \in UsePool} \cup {<<u, v>> : u \in UsePool, v \in UsePool}
                     \cup {<<El("g", [fill |-> "red"], <<u>>)>> : u \in UsePool}}

\* svg.resolve_use(inplace=True) on a parsed document: self.elements is
\* empty, so _update_etree changes nothing, and _resolve_use captures el_by_id
UseInit ==
    /\ docInput \in UseDocuments
    /\ docTree = fromstring(docInput)
    /\ docPos = "_resolve_use"
    /\ docFrontier = <<>>
    /\ docOut = <<>>
    /\ docFirst = el_by_id(docTree)
    /\ docError = ""
    /\ DocOthersRest

\* a round of the while loop that finds use elements: each gets its copy,
\* then the swaps are made; an exception ends the call
ResolveUseRound ==
    /\ docPos = "_resolve_use"
    /\ Len(docTree) <= MaxElements
    /\ \E use_els \in {use_els_of(docTree)} :
        /\ Len(use_els) > 0
        /\ \E st \in {resolve_round(Ok(docTree), docFirst, use_els, 1, <<>>)} :
            /\ docTree' = st.tree
            /\ docError' = st.error
            /\ docPos' = IF st.error # "" THEN "raised" ELSE docPos
    /\ UNCHANGED <<docInput, docFrontier, docOut, docFirst, DocOthers>>

\* if not use_els: break
ResolveUseBreak ==
    /\ docPos = "_resolve_use"
    /\ Len(use_els_of(docTree)) = 0
    /\ docPos' = "returned"
    /\ UNCHANGED <<docInput, docTree, docFrontier, docOut, docFirst, docError, DocOthers>>

UseNext == ResolveUseRound \/ ResolveUseBreak

SpecUse == UseInit /\ [][UseNext]_vars

(***************************************************************************)
(* C16: the postcondition of resolve_use.  When the call has returned, no  *)
(* use element is left in the document, no element of a copy carries an id *)
(* and no id is on more elements than it was before the call.              *)
(***************************************************************************)
InDocument(tree) == Range(iter(tree, svg_root))

IdCount(tree, id) ==
    Cardinality({el \in InDocument(tree) : attrib_get(tree[el].attrib, "id", "") = id})

\* the elements the call added are those numbered after the parsed ones
IsCopy(el) == el > Len(fromstring(docInput))

C16_ResolveUsePostcondition ==
    docPos = "returned" =>
        /\ \A el \in InDocument(docTree) : docTree[el].tag # "use"
        /\ \A el \in InDocument(docTree) : IsCopy(el) => "id" \notin DOMAIN docTree[el].attrib
        /\ \A id \in DOMAIN chars : IdCount(docTree, id) <= IdCount(fromstring(docInput), id)

\* a use of a g was resolved whose copy held a path with an id and a use
C16_Witness ==
    /\ docPos = "returned"
    /\ \E el \in InDocument(docTree) :
        /\ IsCopy(el)
        /\ docTree[el].tag = "g"
        /\ Len(docTree[el].children) = 2
        /\ \A child \in Range(docTree[el].children) : IsCopy(child) /\ docTree[child].tag = "path"

(***************************************************************************)
(* svg.py: resolve_nested_svgs(inplace=True).  The attributes x, y, width  *)
(* and height hold the numbers their texts read as, viewBox the sequence   *)
(* of its numbers, clip-path the id its url names.  docFrontier holds the  *)
(* nested svgs that _swap_elements has not reached yet.                    *)
(***************************************************************************)
Rect(x, y, w, h) == [x |-> x, y |-> y, w |-> w, h |-> h]

\* self.view_box(), <<>> for None
view_box(tree) ==
    LET attrib == tree[svg_root].attrib
    IN  IF "viewBox" \in DOMAIN attrib
        THEN <<Rect(attrib["viewBox"][1], attrib["viewBox"][2], attrib["viewBox"][3], attrib["viewBox"][4])>>
        ELSE IF "width" \in DOMAIN attrib /\ "height" \in DOMAIN attrib
        THEN <<Rect(Zero, Zero, attrib["width"], attrib["height"])>>
        ELSE <<>>

\* the svg elements below root that are in no other svg below root, in the
\* order the deque gives them
RECURSIVE _iter_nested_svgs_from(_, _)
_iter_nested_svgs_from(tree, frontier) ==
    IF Len(frontier) = 0 THEN <<>>
    ELSE IF is_Comment(tree[Head(frontier)].tag) THEN _iter_nested_svgs_from(tree, Tail(frontier))
    ELSE IF tree[Head(frontier)].tag = "svg"
    THEN <<Head(frontier)>> \o _iter_nested_svgs_from(tree, Tail(frontier))
    ELSE _iter_nested_svgs_from(tree, Tail(frontier) \o tree[Head(frontier)].children)

_iter_nested_svgs(tree, root) == _iter_nested_svgs_from(tree, tree[root].children)

\* _swap_elements on one pair: the new elements take the place of old_el
swap_one(tree, old_el, new_els) ==
    LET parent == getparent(tree, old_el)
        at == index(tree, parent, old_el)
        kids == tree[parent].children
    IN  [tree EXCEPT ![parent].children = SubSeq(kids, 1, at) \o new_els \o SubSeq(kids, at + 2, Len(kids))]

ViewportIds ==
    <<"nested-svg-viewport-0", "nested-svg-viewport-1", "nested-svg-viewport-2", "nested-svg-viewport-3">>

\* self._new_id("nested-svg-viewport-%d"): the first id no element of the document has
_new_id(tree) ==
    ViewportIds[CHOOSE i \in 1..Len(ViewportIds) :
        /\ WithId(tree, svg_root, ViewportIds[i]) = {}
        /\ \A j \in 1..(i - 1) : WithId(tree, svg_root, ViewportIds[j]) # {}]

\* to_element(SVGRect(x=x, y=y, width=width, height=height)): a field that
\* has its default, 0, is left out
rect_element(x, y, width, height) ==
    LET values == [x |-> x, y |-> y, width |-> width, height |-> height]
    IN  Element("rect", [n \in {n \in DOMAIN values : values[n] # Zero} |-> values[n]], <<>>)

Unnested(tree, error, new_els) == [tree |-> tree, error |-> error, new_els |-> new_els]

\* g = etree.Element("g"); g.extend(svg): the children of svg move to the
\* new element, which is the last of the tree
extend_g(tree, svg) ==
    [NewElement(tree, Element("g", NoAttrib, tree[svg].children)) EXCEPT ![svg].children = <<>>]

\* the transform of g, then the overflow: the tree with the new elements,
\* not yet attached, and the elements that replace svg
wrap_in_g(tree, g, svg, viewport, transform) ==
    LET attrib == tree[svg].attrib
        composed == IF "transform" \in DOMAIN attrib
                    THEN compose_ltr(<<transform, parse_svg_transform(attrib["transform"])>>)
                    ELSE transform
        with_g == IF composed # identity
                  THEN [tree EXCEPT ![g].attrib = [n \in {"transform"} |-> Affine2D_tostring(composed)]]
                  ELSE tree
        overflow == attrib_get(attrib, "overflow", "hidden")
    IN  IF overflow = "visible" THEN Unnested(with_g, "", <<g>>)
        ELSE IF overflow # "hidden"
        THEN Unnested(with_g, "NotImplementedError: overflow is not supported", <<>>)
        ELSE Only([id \in {_new_id(with_g)} |->
                 Unnested(with_g \o
                          <<Element("clipPath", [n \in {"id"} |-> id], <<g + 2>>),
                            rect_element(viewport.x, viewport.y, viewport.w, viewport.h),
                            Element("g", [n \in {"clip-path"} |-> id], <<g>>)>>,
                          "", <<g + 1, g + 3>>)])

RECURSIVE _unnest_svg(_, _, _, _)
RECURSIVE unnest_each(_, _, _, _, _)
\* self._swap_elements((el, self._unnest_svg(el, w, h)) for el in nested_svgs):
\* each nested svg is unnested and swapped before the next is looked at
unnest_each(st, nested_svgs, i, parent_width, parent_height) ==
    IF st.error # "" \/ i > Len(nested_svgs) THEN st
    ELSE Only([unnested \in {_unnest_svg(st.tree, nested_svgs[i], parent_width, parent_height)} |->
             IF unnested.error # "" THEN Raised(unnested.tree, unnested.error)
             ELSE unnest_each(Ok(swap_one(unnested.tree, nested_svgs[i], unnested.new_els)),
                              nested_svgs, i + 1, parent_width, parent_height)])

\* Affine2D.rect_to_rect(viewbox, viewport, preserve_aspect_ratio) is a call
\* with one argument more than rect_to_rect(cls, src, dst) takes: TypeError
_unnest_svg(tree, svg, parent_width, parent_height) ==
    LET attrib == tree[svg].attrib
        x == attrib_get(attrib, "x", Zero)
        y == attrib_get(attrib, "y", Zero)
        viewport == Rect(x, y, attrib_get(attrib, "width", parent_width),
                         attrib_get(attrib, "height", parent_height))
    IN  IF "viewBox" \in DOMAIN attrib /\ Len(attrib["viewBox"]) # 4
        THEN Unnested(tree, "ValueError: Unable to parse viewBox", <<>>)
        ELSE Only([viewbox \in {IF "viewBox" \in DOMAIN attrib
                 THEN Rect(attrib["viewBox"][1], attrib["viewBox"][2], attrib["viewBox"][3], attrib["viewBox"][4])
                 ELSE viewport} |->
             Only([inner \in {unnest_each(Ok(tree), _iter_nested_svgs(tree, svg), 1, viewbox.w, viewbox.h)} |->
                 IF inner.error # "" THEN Unnested(inner.tree, inner.error, <<>>)
                 ELSE Only([with_g \in {extend_g(inner.tree, svg)} |->
                      IF viewport # viewbox
                      THEN Unnested(with_g,
                                    "TypeError: rect_to_rect() takes 3 positional arguments but 4 were given",
                                    <<>>)
                      ELSE wrap_in_g(with_g, Len(with_g), svg, viewport, translate(identity, x, y))])])])

\* the attrib of a nested svg of the documents
NestedAttribs ==
    {[x |-> One, y |-> Rat(2), width |-> Rat(4), height |-> Rat(4)],
     [overflow |-> "visible"],
     [x |-> One, y |-> Rat(2), width |-> Rat(4), height |-> Rat(4), overflow |-> "visible",
      viewBox |-> <<One, Rat(2), Rat(4), Rat(4)>>],
     [width |-> Rat(4), height |-> Rat(4), viewBox |-> <<Zero, Zero, Rat(8), Rat(8)>>],
     [overflow |-> "scroll"],
     [x |-> One, overflow |-> "visible", transform |-> <<TransformCall("scale", <<Rat(2)>>)>>],
     [viewBox |-> <<Zero, Zero, Rat(8)>>]}

NestedLeaf == El("path", [d |-> DMove], <<>>)

NestedChildren ==
    {<<NestedLeaf>>}
    \cup {<<El("svg", a, <<NestedLeaf>>)>> : a \in NestedAttribs}
    \cup {<<El("svg", a, <<NestedLeaf>>), El("svg", b, <<>>)>> : a \in NestedAttribs, b \in NestedAttribs}
    \cup {<<El("g", [fill |-> "red"], <<El("!--", NoAttrib, <<>>), El("svg", a, <<NestedLeaf>>)>>)>> :
            a \in NestedAttribs}
    \cup {<<El("svg", a, <<NestedLeaf, El("svg", b, <<NestedLeaf>>)>>)>> : a \in NestedAttribs, b \in NestedAttribs}

NestedDocuments ==
    {El("svg", root, children) :
        root \in {[viewBox |-> <<Zero, Zero, Rat(10), Rat(10)>>], [width |-> Rat(10), height |-> Rat(10)],
                  NoAttrib},
        children \in NestedChildren}

\* svg.resolve_nested_svgs(inplace=True) on a parsed document
NestedInit ==
    /\ docInput \in NestedDocuments
    /\ docTree = fromstring(docInput)
    /\ docPos = "resolve_nested_svgs"
    /\ docFrontier = <<>>
    /\ docOut = <<>>
    /\ docFirst = <<>>
    /\ docError = ""
    /\ DocOthersRest

\* the head of resolve_nested_svgs: None is returned when no svg is nested,
\* ValueError is raised when the root has no view box
ResolveNestedSvgs ==
    /\ docPos = "resolve_nested_svgs"
    /\ \E nested_svgs \in {_iter_nested_svgs(docTree, svg_root)} :
        IF Len(nested_svgs) = 0
        THEN /\ docPos' = "returned"
             /\ docOut' = <<"None">>
             /\ UNCHANGED <<docFrontier, docError>>
        ELSE IF view_box(docTree) = <<>>
        THEN /\ docPos' = "raised"
             /\ docError' = "ValueError: Can't determine root SVG width/height"
             /\ UNCHANGED <<docFrontier, docOut>>
        ELSE /\ docPos' = "_swap_elements"
             /\ docFrontier' = nested_svgs
             /\ UNCHANGED <<docOut, docError>>
    /\ UNCHANGED <<docInput, docTree, docFirst, DocOthers>>

\* one round of the loop of _swap_elements: the next nested svg is unnested
\* and the elements it gave take its place
SwapNested ==
    /\ docPos = "_swap_elements"
    /\ Len(docFrontier) > 0
    /\ \E vb \in {view_box(docTree)[1]} :
       \E st \in {unnest_each(Ok(docTree), <<Head(docFrontier)>>, 1, vb.w, vb.h)} :
        /\ docTree' = st.tree
        /\ docError' = st.error
        /\ docPos' = IF st.error # "" THEN "raised" ELSE docPos
    /\ docFrontier' = Tail(docFrontier)
    /\ UNCHANGED <<docInput, docOut, docFirst, DocOthers>>

\* return self
NestedReturn ==
    /\ docPos = "_swap_elements"
    /\ Len(docFrontier) = 0
    /\ docPos' = "returned"
    /\ docOut' = <<"self">>
    /\ UNCHANGED <<docInput, docTree, docFrontier, docFirst, docError, DocOthers>>

NestedNext == ResolveNestedSvgs \/ SwapNested \/ NestedReturn

SpecNested == NestedInit /\ [][NestedNext]_vars

(***************************************************************************)
(* C17: nested svg resolution.  On a document whose root has a view box    *)
(* and whose nested svgs have a viewBox of four numbers and an overflow    *)
(* that is hidden or visible, resolve_nested_svgs raises nothing, also     *)
(* when a nested viewBox differs from its viewport, and when it has        *)
(* returned the only svg element is the root.                              *)
(***************************************************************************)
NestedSvgs(tree) == {el \in Range(iter(tree, svg_root)) : el # svg_root /\ tree[el].tag = "svg"}

Resolvable(tree) ==
    /\ view_box(tree) # <<>>
    /\ \A el \in NestedSvgs(tree) :
        /\ attrib_get(tree[el].attrib, "overflow", "hidden") \in {"hidden", "visible"}
        /\ "viewBox" \in DOMAIN tree[el].attrib => Len(tree[el].attrib["viewBox"]) = 4

C17_NestedSvgsResolved ==
    Resolvable(fromstring(docInput)) =>
        /\ docPos # "raised"
        /\ docPos = "returned" => NestedSvgs(docTree) = {}
(***************************************************************************)
(* arc_to_cubic.py and SVGPath.arcs_to_cubics.  The arithmetic of          *)
(* _arc_to_cubic is IEEE double arithmetic over sqrt, atan2, sin, cos and  *)
(* tan, so a float is written here as repr() writes it ("2.0",             *)
(* "0.9999999999999998"): two floats of the model are equal exactly when   *)
(* their texts are (neither -0.0 nor nan occurs).  The walk is the path's  *)
(* d in docInput, the commands not yet reached in docFrontier, new_cmds    *)
(* in docOut and curr_pos, subpath_start_pos in docFirst.                  *)
(***************************************************************************)
EllipticalArc(start_point, rx, ry, rotation, large, sweep, end_point) ==
    [start_point |-> start_point, rx |-> rx, ry |-> ry, rotation |-> rotation,
     large |-> large, sweep |-> sweep, end_point |-> end_point]

\* not (fabs(rx) and fabs(ry))
is_straight_line(arc) == arc.rx = "0.0" \/ arc.ry = "0.0"

is_zero_length(arc) == arc.end_point = arc.start_point

\* the cubics (x1, y1, x2, y2, x, y) that _arc_to_cubic yields for the arcs the
\* model's paths reach, as CPython computes them: the key is (start x, start y,
\* rx, ry, rotation, large, sweep, end x, end y)
ArcCubics ==
    (<<"0.0", "0.0", "2.0", "1.0", "0.0", 1, 0, "1.0", "1.0">> :>
        <<<<"-0.7658017476987647", "-0.21616849372963887", "-1.7241609395259907", "-0.15685773842568485", "-2.361441335022751", "0.14614444185497732">>,
          <<"-2.9987217305195113", "0.4491466221356394", "-3.165379621361164", "0.9247379779125418", "-2.772094079418965", "1.318023519854741">>,
          <<"-2.3788085374767656", "1.71130906179694", "-1.5178676337287313", "1.9300007189264203", "-0.6506959079816166", "1.856889868896114">>,
          <<"0.21647581776549907", "1.7837790188658076", "0.8863885413481623", "1.43602179531729", "0.9999999999999998", "1.0000000000000007">>>>)
    @@ (<<"1.0", "0.0", "2.0", "1.0", "0.0", 1, 0, "1.0", "1.0">> :>
        <<<<"0.547394321515499", "-0.39196801546466975", "-0.37532186982738636", "-0.5830687958024052", "-1.2496888977739185", "-0.4659258262890683">>,
          <<"-2.1240559257204508", "-0.3487828567757313", "-2.732050807568877", "0.04739432151549883", "-2.732050807568877", "0.4999999999999999">>,
          <<"-2.732050807568877", "0.9526056784845007", "-2.1240559257204517", "1.3487828567757307", "-1.2496888977739202", "1.4659258262890682">>,
          <<"-0.375321869827388", "1.5830687958024054", "0.5473943215154979", "1.3919680154646703", "0.9999999999999996", "1.0000000000000004">>>>)
    @@ (<<"2.0", "0.0", "2.0", "1.0", "0.0", 1, 0, "1.0", "1.0">> :>
        <<<<"1.8863885413481631", "-0.4360217953172892", "1.2164758177655008", "-0.7837790188658071", "0.3493040920183853", "-0.856889868896114">>,
          <<"-0.5178676337287301", "-0.9300007189264206", "-1.3788085374767651", "-0.7113090617969404", "-1.7720940794189644", "-0.31802351985474125">>,
          <<"-2.165379621361163", "0.07526202208745775", "-1.9987217305195115", "0.5508533778643598", "-1.3614413350227519", "0.853855558145022">>,
          <<"-0.7241609395259924", "1.1568577384256844", "0.23419825230123337", "1.2161684937296389", "0.9999999999999986", "1.0000000000000004">>>>)
    @@ (<<"0.0", "0.0", "1.0", "1.0", "0.0", 0, 1, "1.0", "0.0">> :>
        <<<<"0.30940107675850287", "-0.1786327949540818", "0.690598923241497", "-0.1786327949540818", "1.0", "0.0">>>>)
    @@ (<<"0.0", "0.0", "1.0", "1.0", "0.0", 0, 1, "2.0", "0.0">> :>
        <<<<"0.0", "-0.5522847498307932", "0.44771525016920644", "-0.9999999999999999", "0.9999999999999998", "-1.0">>,
          <<"1.5522847498307932", "-1.0", "2.0", "-0.5522847498307936", "2.0", "-2.4492935982947064e-16">>>>)
    @@ (<<"2.0", "-2.4492935982947064e-16", "2.0", "1.0", "0.0", 1, 0, "1.0", "1.0">> :>
        <<<<"1.886388541348163", "-0.4360217953172895", "1.2164758177655006", "-0.7837790188658071", "0.3493040920183851", "-0.856889868896114">>,
          <<"-0.5178676337287301", "-0.9300007189264206", "-1.378808537476765", "-0.7113090617969402", "-1.7720940794189641", "-0.31802351985474125">>,
          <<"-2.1653796213611636", "0.07526202208745791", "-1.9987217305195113", "0.5508533778643603", "-1.361441335022751", "0.8538555581450225">>,
          <<"-0.7241609395259909", "1.1568577384256846", "0.23419825230123525", "1.2161684937296389", "1.0000000000000004", "1.0">>>>)
    @@ (<<"0.0", "0.0", "1.0", "1.0", "0.0", 0, 1, "1.0", "1.0">> :>
        <<<<"0.5522847498307935", "0.0", "1.0", "0.44771525016920666", "1.0", "1.0">>>>)
    @@ (<<"0.0", "0.0", "1.0", "1.0", "0.0", 1, 0, "1.0", "0.0">> :>
        <<<<"-0.39196801546466997", "0.2263028392422507", "-0.5830687958024054", "0.6876609349136933", "-0.4659258262890683", "1.1248444488869593">>,
          <<"-0.3487828567757312", "1.5620279628602254", "0.04739432151549883", "1.8660254037844384", "0.49999999999999983", "1.8660254037844386">>,
          <<"0.952605678484501", "1.8660254037844386", "1.3487828567757312", "1.5620279628602254", "1.4659258262890682", "1.1248444488869593">>,
          <<"1.5830687958024052", "0.6876609349136934", "1.39196801546467", "0.22630283924225092", "1.0000000000000004", "2.220446049250313e-16">>>>)
    @@ (<<"1.0000000000000004", "2.220446049250313e-16", "2.0", "1.0", "0.0", 1, 0, "1.0", "1.0">> :>
        <<<<"0.5473943215154997", "-0.3919680154646697", "-0.3753218698273859", "-0.5830687958024052", "-1.249688897773918", "-0.4659258262890685">>,
          <<"-2.1240559257204503", "-0.34878285677573156", "-2.732050807568877", "0.04739432151549866", "-2.732050807568877", "0.49999999999999983">>,
          <<"-2.732050807568877", "0.9526056784845007", "-2.1240559257204517", "1.3487828567757307", "-1.2496888977739202", "1.465925826289068">>,
          <<"-0.375321869827388", "1.5830687958024054", "0.5473943215154979", "1.3919680154646703", "0.9999999999999996", "1.0000000000000004">>>>)
    @@ (<<"0.0", "0.0", "1.0", "1.0", "0.0", 1, 0, "2.0", "0.0">> :>
        <<<<"1.1102230246251565e-16", "0.5522847498307935", "0.44771525016920677", "1.0", "1.0", "1.0">>,
          <<"1.5522847498307935", "1.0", "2.0", "0.5522847498307933", "2.0", "0.0">>>>)
    @@ (<<"0.0", "0.0", "1.0", "1.0", "0.0", 1, 0, "1.0", "1.0">> :>
        <<<<"-0.5522847498307932", "0.0", "-0.9999999999999999", "0.44771525016920655", "-1.0", "0.9999999999999999">>,
          <<"-1.0", "1.5522847498307932", "-0.5522847498307936", "2.0", "-1.8369701987210297e-16", "2.0">>,
          <<"0.5522847498307931", "2.0", "0.9999999999999999", "1.5522847498307937", "1.0", "1.0000000000000002">>>>)
    @@ (<<"1.0", "1.0000000000000002", "2.0", "1.0", "0.0", 1, 0, "1.0", "1.0">> :>
        <<>>)
    @@ (<<"0.0", "0.0", "2.0", "1.0", "0.0", 0, 1, "1.0", "0.0">> :>
        <<<<"0.32795558988644485", "-0.04233888459752766", "0.6720444101135549", "-0.04233888459752766", "1.0", "0.0">>>>)
    @@ (<<"0.0", "0.0", "2.0", "1.0", "0.0", 0, 1, "2.0", "0.0">> :>
        <<<<"0.6188021535170057", "-0.1786327949540818", "1.381197846482994", "-0.1786327949540818", "2.0", "0.0">>>>)
    @@ (<<"0.0", "0.0", "2.0", "1.0", "0.0", 0, 1, "1.0", "1.0">> :>
        <<<<"0.7096861342971457", "0.20032832666264688", "1.1052863579180523", "0.5959285502835537", "1.0", "1.0">>>>)
    @@ (<<"0.0", "0.0", "2.0", "1.0", "0.0", 1, 0, "1.0", "0.0">> :>
        <<<<"-0.9751533620510495", "0.12589175770739636", "-1.6109626074089536", "0.5946966803905503", "-1.4840593925343335", "1.0942501290345823">>,
          <<"-1.3571561776597136", "1.5938035776786141", "-0.50713406165917", "1.968245836551854", "0.4999999999999996", "1.9682458365518543">>,
          <<"1.5071340616591686", "1.9682458365518543", "2.3571561776597125", "1.5938035776786148", "2.4840593925343333", "1.0942501290345832">>,
          <<"2.610962607408954", "0.594696680390551", "1.9751533620510506", "0.12589175770739658", "1.0000000000000009", "1.1102230246251565e-16">>>>)
    @@ (<<"1.0000000000000009", "1.1102230246251565e-16", "2.0", "1.0", "0.0", 1, 0, "1.0", "1.0">> :>
        <<<<"0.5473943215155004", "-0.3919680154646698", "-0.37532186982738514", "-0.5830687958024057", "-1.2496888977739173", "-0.4659258262890688">>,
          <<"-2.12405592572045", "-0.348782856775732", "-2.7320508075688767", "0.047394321515497995", "-2.7320508075688767", "0.49999999999999906">>,
          <<"-2.7320508075688776", "0.9526056784845001", "-2.1240559257204517", "1.3487828567757303", "-1.24968889777392", "1.4659258262890678">>,
          <<"-0.3753218698273878", "1.583068795802405", "0.5473943215154982", "1.3919680154646699", "0.9999999999999998", "1.0">>>>)
    @@ (<<"0.0", "0.0", "2.0", "1.0", "0.0", 1, 0, "2.0", "0.0">> :>
        <<<<"-0.7839360309293399", "0.2263028392422507", "-1.166137591604811", "0.6876609349136933", "-0.9318516525781366", "1.1248444488869593">>,
          <<"-0.6975657135514624", "1.5620279628602254", "0.09478864303099765", "1.8660254037844384", "0.9999999999999997", "1.8660254037844386">>,
          <<"1.905211356969002", "1.8660254037844386", "2.6975657135514624", "1.5620279628602254", "2.9318516525781364", "1.1248444488869593">>,
          <<"3.1661375916048105", "0.6876609349136934", "2.78393603092934", "0.22630283924225092", "2.000000000000001", "2.220446049250313e-16">>>>)
    @@ (<<"2.000000000000001", "2.220446049250313e-16", "2.0", "1.0", "0.0", 1, 0, "1.0", "1.0">> :>
        <<<<"1.886388541348164", "-0.43602179531728896", "1.2164758177655022", "-0.7837790188658071", "0.3493040920183868", "-0.856889868896114">>,
          <<"-0.5178676337287285", "-0.930000718926421", "-1.3788085374767636", "-0.7113090617969409", "-1.7720940794189632", "-0.31802351985474187">>,
          <<"-2.1653796213611627", "0.07526202208745708", "-1.9987217305195113", "0.5508533778643593", "-1.3614413350227519", "0.8538555581450216">>,
          <<"-0.7241609395259923", "1.1568577384256842", "0.2341982523012338", "1.2161684937296386", "0.9999999999999992", "1.0000000000000002">>>>)
    @@ (<<"0.9999999999999998", "1.0000000000000007", "2.0", "1.0", "0.0", 1, 0, "1.0", "1.0">> :>
        <<<<"0.8184098928472503", "1.5447703214582507", "1.5544492301370725", "2.059997857561126", "2.6439898730535725", "2.1507929111375015">>,
          <<"3.733530515970073", "2.241587964713877", "4.763985588175824", "1.8735682960689655", "4.945575695328575", "1.3287979746107152">>,
          <<"5.127165802481326", "0.7840276531524656", "4.391126465191504", "0.26880011704958984", "3.3015858222750047", "0.1780050634732142">>,
          <<"2.2120451793585048", "0.08721000989683847", "1.181590107152752", "0.4552296785417491", "1.0000000000000004", "0.9999999999999991">>>>)
    @@ (<<"1.0", "0.0", "1.0", "1.0", "0.0", 0, 1, "0.0", "0.0">> :>
        <<<<"0.690598923241497", "0.1786327949540818", "0.30940107675850287", "0.1786327949540818", "-2.220446049250313e-16", "-1.1102230246251565e-16">>>>)
    @@ (<<"-2.220446049250313e-16", "-1.1102230246251565e-16", "2.0", "1.0", "0.0", 1, 0, "1.0", "1.0">> :>
        <<<<"-0.7658017476987652", "-0.21616849372963887", "-1.7241609395259907", "-0.15685773842568462", "-2.361441335022751", "0.14614444185497732">>,
          <<"-2.9987217305195113", "0.4491466221356394", "-3.165379621361164", "0.9247379779125418", "-2.772094079418965", "1.318023519854741">>,
          <<"-2.378808537476766", "1.71130906179694", "-1.5178676337287316", "1.9300007189264203", "-0.6506959079816166", "1.856889868896114">>,
          <<"0.21647581776549896", "1.7837790188658076", "0.8863885413481621", "1.43602179531729", "0.9999999999999997", "1.0000000000000007">>>>)
    @@ (<<"1.0", "0.0", "1.0", "1.0", "0.0", 0, 1, "2.0", "0.0">> :>
        <<<<"1.309401076758503", "-0.1786327949540818", "1.690598923241497", "-0.1786327949540818", "2.0", "0.0">>>>)
    @@ (<<"1.0", "0.0", "1.0", "1.0", "0.0", 0, 1, "1.0", "1.0">> :>
        <<<<"1.1786327949540818", "0.3094010767585031", "1.1786327949540818", "0.6905989232414969", "1.0", "1.0">>>>)
    @@ (<<"1.0", "0.0", "1.0", "1.0", "0.0", 1, 0, "0.0", "0.0">> :>
        <<<<"1.3919680154646699", "-0.2263028392422506", "1.5830687958024054", "-0.6876609349136933", "1.4659258262890682", "-1.1248444488869593">>,
          <<"1.3487828567757312", "-1.5620279628602254", "0.9526056784845013", "-1.8660254037844384", "0.5000000000000003", "-1.8660254037844386">>,
          <<"0.04739432151549933", "-1.8660254037844388", "-0.34878285677573073", "-1.5620279628602258", "-0.4659258262890681", "-1.12484444888696">>,
          <<"-0.5830687958024054", "-0.687660934913694", "-0.3919680154646703", "-0.22630283924225103", "-4.440892098500626e-16", "-2.220446049250313e-16">>>>)
    @@ (<<"-4.440892098500626e-16", "-2.220446049250313e-16", "2.0", "1.0", "0.0", 1, 0, "1.0", "1.0">> :>
        <<<<"-0.7658017476987655", "-0.21616849372963887", "-1.7241609395259911", "-0.1568577384256844", "-2.361441335022751", "0.14614444185497766">>,
          <<"-2.998721730519511", "0.4491466221356398", "-3.165379621361163", "0.924737977912542", "-2.7720940794189644", "1.318023519854741">>,
          <<"-2.378808537476765", "1.7113090617969402", "-1.51786763372873", "1.9300007189264206", "-0.6506959079816146", "1.856889868896114">>,
          <<"0.21647581776550107", "1.7837790188658071", "0.8863885413481634", "1.4360217953172891", "1.0000000000000002", "0.9999999999999998">>>>)
    @@ (<<"1.0", "0.0", "1.0", "1.0", "0.0", 1, 0, "2.0", "0.0">> :>
        <<<<"0.60803198453533", "0.2263028392422507", "0.41693120419759455", "0.6876609349136933", "0.5340741737109317", "1.1248444488869593">>,
          <<"0.6512171432242688", "1.5620279628602254", "1.0473943215154988", "1.8660254037844384", "1.4999999999999998", "1.8660254037844386">>,
          <<"1.952605678484501", "1.8660254037844386", "2.348782856775731", "1.5620279628602254", "2.465925826289068", "1.1248444488869593">>,
          <<"2.5830687958024052", "0.6876609349136934", "2.39196801546467", "0.22630283924225092", "2.0000000000000004", "2.220446049250313e-16">>>>)
    @@ (<<"2.0000000000000004", "2.220446049250313e-16", "2.0", "1.0", "0.0", 1, 0, "1.0", "1.0">> :>
        <<<<"1.8863885413481636", "-0.4360217953172891", "1.2164758177655015", "-0.7837790188658071", "0.3493040920183859", "-0.856889868896114">>,
          <<"-0.5178676337287296", "-0.930000718926421", "-1.3788085374767647", "-0.7113090617969406", "-1.7720940794189641", "-0.31802351985474137">>,
          <<"-2.1653796213611636", "0.0752620220874578", "-1.9987217305195113", "0.5508533778643601", "-1.361441335022751", "0.8538555581450222">>,
          <<"-0.7241609395259909", "1.1568577384256844", "0.23419825230123525", "1.2161684937296386", "1.0000000000000004", "0.9999999999999998">>>>)
    @@ (<<"1.0", "0.0", "1.0", "1.0", "0.0", 1, 0, "1.0", "1.0">> :>
        <<<<"0.7736971607577495", "-0.39196801546466975", "0.3123390650863068", "-0.5830687958024052", "-0.12484444888695923", "-0.4659258262890683">>,
          <<"-0.5620279628602254", "-0.3487828567757313", "-0.8660254037844386", "0.04739432151549883", "-0.8660254037844386", "0.4999999999999999">>,
          <<"-0.8660254037844386", "0.9526056784845007", "-0.5620279628602258", "1.3487828567757307", "-0.12484444888696011", "1.4659258262890682">>,
          <<"0.312339065086306", "1.5830687958024054", "0.773697160757749", "1.3919680154646703", "0.9999999999999998", "1.0000000000000004">>>>)
    @@ (<<"0.9999999999999998", "1.0000000000000004", "2.0", "1.0", "0.0", 1, 0, "1.0", "1.0">> :>
        <<<<"0.7321025460035075", "1.5357949079929853", "1.3836239342320287", "2.078729398183419", "2.455213750217999", "2.2126781251816654">>,
          <<"3.526803566203969", "2.346626852179911", "4.612672546584836", "2.0208661580656506", "4.8805700005813275", "1.4850712500726655">>,
          <<"5.148467454577819", "0.9492763420796804", "4.496946066349299", "0.4063418518892471", "3.4253562503633286", "0.2723931248910011">>,
          <<"2.3537664343773583", "0.1384443978927552", "1.2678974539964918", "0.46420509200701543", "0.9999999999999998", "1.0000000000000004">>>>)
    @@ (<<"1.0", "0.0", "2.0", "1.0", "0.0", 0, 1, "0.0", "0.0">> :>
        <<<<"0.6720444101135549", "0.04233888459752766", "0.32795558988644485", "0.04233888459752766", "-2.220446049250313e-16", "-1.1102230246251565e-16">>>>)
    @@ (<<"1.0", "0.0", "2.0", "1.0", "0.0", 0, 1, "2.0", "0.0">> :>
        <<<<"1.3279555898864448", "-0.04233888459752766", "1.6720444101135548", "-0.04233888459752766", "2.0", "0.0">>>>)
    @@ (<<"1.0", "0.0", "2.0", "1.0", "0.0", 0, 1, "1.0", "1.0">> :>
        <<<<"1.3572655899081636", "0.3094010767585031", "1.3572655899081636", "0.6905989232414969", "1.0", "1.0">>>>)
    @@ (<<"1.0", "0.0", "2.0", "1.0", "0.0", 1, 0, "0.0", "0.0">> :>
        <<<<"1.9751533620510493", "-0.12589175770739613", "2.610962607408953", "-0.5946966803905502", "2.4840593925343333", "-1.0942501290345823">>,
          <<"2.3571561776597134", "-1.5938035776786141", "1.5071340616591702", "-1.968245836551854", "0.5000000000000006", "-1.9682458365518543">>,
          <<"-0.5071340616591686", "-1.9682458365518545", "-1.3571561776597127", "-1.5938035776786148", "-1.4840593925343333", "-1.094250129034583">>,
          <<"-1.610962607408954", "-0.5946966803905509", "-0.9751533620510502", "-0.12589175770739658", "-6.661338147750939e-16", "-1.1102230246251565e-16">>>>)
    @@ (<<"-6.661338147750939e-16", "-1.1102230246251565e-16", "2.0", "1.0", "0.0", 1, 0, "1.0", "1.0">> :>
        <<<<"-0.7658017476987656", "-0.21616849372963887", "-1.7241609395259914", "-0.1568577384256844", "-2.3614413350227514", "0.14614444185497766">>,
          <<"-2.998721730519511", "0.4491466221356398", "-3.165379621361163", "0.924737977912542", "-2.7720940794189644", "1.318023519854741">>,
          <<"-2.378808537476765", "1.7113090617969402", "-1.5178676337287302", "1.9300007189264206", "-0.6506959079816146", "1.856889868896114">>,
          <<"0.21647581776550096", "1.7837790188658071", "0.8863885413481633", "1.4360217953172891", "1.0", "0.9999999999999998">>>>)
    @@ (<<"1.0", "0.0", "2.0", "1.0", "0.0", 1, 0, "2.0", "0.0">> :>
        <<<<"0.02484663794895048", "0.12589175770739636", "-0.6109626074089536", "0.5946966803905503", "-0.4840593925343335", "1.0942501290345823">>,
          <<"-0.35715617765971364", "1.5938035776786141", "0.49286593834083003", "1.968245836551854", "1.4999999999999996", "1.9682458365518543">>,
          <<"2.5071340616591686", "1.9682458365518543", "3.3571561776597125", "1.5938035776786148", "3.4840593925343333", "1.0942501290345832">>,
          <<"3.610962607408954", "0.594696680390551", "2.9751533620510506", "0.12589175770739658", "2.000000000000001", "1.1102230246251565e-16">>>>)
    @@ (<<"2.000000000000001", "1.1102230246251565e-16", "2.0", "1.0", "0.0", 1, 0, "1.0", "1.0">> :>
        <<<<"1.8863885413481642", "-0.43602179531728913", "1.2164758177655024", "-0.7837790188658071", "0.349304092018387", "-0.8568898688961141">>,
          <<"-0.5178676337287282", "-0.9300007189264211", "-1.3788085374767634", "-0.711309061796941", "-1.772094079418963", "-0.3180235198547419">>,
          <<"-2.1653796213611622", "0.07526202208745703", "-1.998721730519511", "0.5508533778643592", "-1.3614413350227517", "0.8538555581450216">>,
          <<"-0.724160939525992", "1.1568577384256842", "0.23419825230123403", "1.2161684937296386", "0.9999999999999994", "1.0">>>>)
    @@ (<<"0.9999999999999996", "1.0000000000000004", "2.0", "1.0", "0.0", 1, 0, "1.0", "1.0">> :>
        <<<<"0.5060215025767518", "1.4939784974232482", "0.9064701961534207", "2.0946515377882506", "1.8944271909999169", "2.341640786499874">>,
          <<"2.882384185846413", "2.588630035211498", "4.083730266576417", "2.3884056884231635", "4.577708763999664", "1.8944271909999155">>,
          <<"5.071687261422911", "1.4004486935766676", "4.671238567846242", "0.7997756532116655", "3.6832815729997463", "0.552786404500042">>,
          <<"2.695324578153251", "0.3057971557884185", "1.4939784974232466", "0.5060215025767527", "0.9999999999999993", "1.0000000000000007">>>>)
    @@ (<<"3.0", "0.0", "2.0", "1.0", "0.0", 1, 0, "1.0", "1.0">> :>
        <<<<"3.0", "-0.5522847498307933", "2.104569499661587", "-1.0", "1.0000000000000002", "-1.0">>,
          <<"-0.10456949966158646", "-1.0", "-0.9999999999999998", "-0.5522847498307935", "-1.0", "-1.2246467991473532e-16">>,
          <<"-1.0", "0.5522847498307932", "-0.10456949966158713", "0.9999999999999999", "0.9999999999999997", "1.0">>>>)
    @@ (<<"2.0", "1.0", "2.0", "1.0", "0.0", 1, 0, "1.0", "1.0">> :>
        <<<<"2.9751533620510493", "0.8741082422926039", "3.610962607408953", "0.40530331960944976", "3.4840593925343333", "-0.09425012903458221">>,
          <<"3.3571561776597134", "-0.5938035776786141", "2.50713406165917", "-0.9682458365518541", "1.5000000000000007", "-0.9682458365518543">>,
          <<"0.49286593834083137", "-0.9682458365518545", "-0.35715617765971275", "-0.5938035776786148", "-0.4840593925343333", "-0.09425012903458299">>,
          <<"-0.610962607408954", "0.4053033196094491", "0.024846637948949812", "0.8741082422926034", "0.9999999999999993", "0.9999999999999999">>>>)
    @@ (<<"1.0", "0.0", "1.0", "1.0", "0.0", 0, 1, "3.0", "0.0">> :>
        <<<<"1.0", "-0.5522847498307932", "1.4477152501692063", "-0.9999999999999999", "1.9999999999999998", "-1.0">>,
          <<"2.5522847498307932", "-1.0", "3.0", "-0.5522847498307936", "3.0", "-2.4492935982947064e-16">>>>)
    @@ (<<"3.0", "-2.4492935982947064e-16", "2.0", "1.0", "0.0", 1, 0, "1.0", "1.0">> :>
        <<<<"3.0", "-0.5522847498307936", "2.1045694996615865", "-1.0", "0.9999999999999997", "-1.0">>,
          <<"-0.10456949966158713", "-0.9999999999999999", "-1.0000000000000004", "-0.5522847498307931", "-1.0", "3.216245299353273e-16">>,
          <<"-0.9999999999999996", "0.5522847498307936", "-0.1045694996615869", "0.9999999999999999", "0.9999999999999997", "1.0">>>>)
    @@ (<<"1.0", "0.0", "1.0", "1.0", "0.0", 0, 1, "2.0", "1.0">> :>
        <<<<"1.5522847498307935", "0.0", "2.0", "0.44771525016920666", "2.0", "1.0">>>>)
    @@ (<<"1.0", "0.0", "1.0", "1.0", "0.0", 1, 0, "3.0", "0.0">> :>
        <<<<"1.0", "0.5522847498307935", "1.4477152501692068", "1.0", "2.0", "1.0">>,
          <<"2.5522847498307932", "1.0", "3.0", "0.5522847498307933", "3.0", "0.0">>>>)
    @@ (<<"1.0", "0.0", "1.0", "1.0", "0.0", 1, 0, "2.0", "1.0">> :>
        <<<<"0.44771525016920677", "0.0", "1.1102230246251565e-16", "0.44771525016920655", "0.0", "0.9999999999999999">>,
          <<"0.0", "1.5522847498307932", "0.44771525016920644", "2.0", "0.9999999999999998", "2.0">>,
          <<"1.5522847498307932", "2.0", "2.0", "1.5522847498307937", "2.0", "1.0000000000000002">>>>)
    @@ (<<"2.0", "1.0000000000000002", "2.0", "1.0", "0.0", 1, 0, "1.0", "1.0">> :>
        <<<<"2.9751533620510493", "0.8741082422926041", "3.610962607408954", "0.4053033196094502", "3.4840593925343346", "-0.09425012903458177">>,
          <<"3.357156177659715", "-0.5938035776786138", "2.5071340616591717", "-0.9682458365518539", "1.5000000000000024", "-0.9682458365518543">>,
          <<"0.49286593834083336", "-0.9682458365518547", "-0.35715617765971075", "-0.5938035776786155", "-0.48405939253433217", "-0.09425012903458388">>,
          <<"-0.6109626074089536", "0.4053033196094482", "0.024846637948949146", "0.8741082422926029", "0.9999999999999986", "0.9999999999999997">>>>)
    @@ (<<"1.0", "0.0", "2.0", "1.0", "0.0", 0, 1, "3.0", "0.0">> :>
        <<<<"1.6188021535170058", "-0.1786327949540818", "2.381197846482994", "-0.1786327949540818", "3.0", "0.0">>>>)
    @@ (<<"1.0", "0.0", "2.0", "1.0", "0.0", 0, 1, "2.0", "1.0">> :>
        <<<<"1.7096861342971457", "0.20032832666264688", "2.105286357918052", "0.5959285502835537", "2.0", "1.0">>>>)
    @@ (<<"1.0", "0.0", "2.0", "1.0", "0.0", 1, 0, "3.0", "0.0">> :>
        <<<<"0.21606396907066006", "0.2263028392422507", "-0.1661375916048109", "0.6876609349136933", "0.06814834742186338", "1.1248444488869593">>,
          <<"0.30243428644853765", "1.5620279628602254", "1.0947886430309977", "1.8660254037844384", "1.9999999999999996", "1.8660254037844386">>,
          <<"2.905211356969002", "1.8660254037844386", "3.6975657135514624", "1.5620279628602254", "3.9318516525781364", "1.1248444488869593">>,
          <<"4.1661375916048105", "0.6876609349136934", "3.78393603092934", "0.22630283924225092", "3.000000000000001", "2.220446049250313e-16">>>>)
    @@ (<<"3.000000000000001", "2.220446049250313e-16", "2.0", "1.0", "0.0", 1, 0, "1.0", "1.0">> :>
        <<<<"3.0000000000000013", "-0.5522847498307931", "2.1045694996615882", "-0.9999999999999999", "1.0000000000000016", "-1.0">>,
          <<"-0.10456949966158535", "-1.0000000000000002", "-0.9999999999999989", "-0.5522847498307936", "-0.9999999999999991", "-1.2246467991473532e-16">>,
          <<"-0.9999999999999991", "0.5522847498307932", "-0.10456949966158624", "0.9999999999999999", "1.0000000000000004", "1.0">>>>)
    @@ (<<"1.0", "0.0", "2.0", "1.0", "0.0", 1, 0, "2.0", "1.0">> :>
        <<<<"0.23419825230123525", "-0.21616849372963887", "-0.7241609395259906", "-0.15685773842568485", "-1.3614413350227508", "0.14614444185497732">>,
          <<"-1.998721730519511", "0.4491466221356394", "-2.165379621361164", "0.9247379779125418", "-1.7720940794189646", "1.318023519854741">>,
          <<"-1.3788085374767658", "1.71130906179694", "-0.5178676337287313", "1.9300007189264203", "0.34930409201838347", "1.856889868896114">>,
          <<"1.216475817765499", "1.7837790188658076", "1.8863885413481623", "1.43602179531729", "1.9999999999999998", "1.0000000000000007">>>>)
    @@ (<<"1.9999999999999998", "1.0000000000000007", "2.0", "1.0", "0.0", 1, 0, "1.0", "1.0">> :>
        <<<<"2.9751533620510493", "0.8741082422926053", "3.610962607408955", "0.4053033196094519", "3.484059392534337", "-0.09425012903458022">>,
          <<"3.3571561776597183", "-0.5938035776786122", "2.507134061659176", "-0.9682458365518529", "1.5000000000000064", "-0.9682458365518538">>,
          <<"0.49286593834083736", "-0.9682458365518547", "-0.35715617765970786", "-0.5938035776786159", "-0.48405939253433017", "-0.09425012903458432">>,
          <<"-0.6109626074089527", "0.40530331960944765", "0.02484663794894937", "0.8741082422926026", "0.9999999999999986", "0.9999999999999999">>>>)

_arc_to_cubic(arc) ==
    ArcCubics[<<arc.start_point.x, arc.start_point.y, arc.rx, arc.ry, arc.rotation,
                arc.large, arc.sweep, arc.end_point.x, arc.end_point.y>>]

\* the (None, None, end_point) that stands for a straight line
StraightLine(end_point) == <<"None", "None", "None", "None", end_point.x, end_point.y>>

arc_to_cubic(start_point, rx, ry, rotation, large, sweep, end_point) ==
    Only([arc \in {EllipticalArc(start_point, rx, ry, rotation, large, sweep, end_point)} |->
        IF is_zero_length(arc) THEN <<>>
        ELSE IF is_straight_line(arc) THEN <<StraightLine(arc.end_point)>>
        ELSE _arc_to_cubic(arc)])

\* the floats of the model that x + y is taken of: whole, and the sum exact
WholeFloats == <<"0.0", "1.0", "2.0", "3.0">>
float_add(x, y) ==
    WholeFloats[(CHOOSE i \in 1..Len(WholeFloats) : WholeFloats[i] = x)
                + (CHOOSE i \in 1..Len(WholeFloats) : WholeFloats[i] = y) - 1]

\* the end point of the arc (cmd, args) met at curr_pos
arc_end_pt(curr_pos, cmd, args) ==
    IF cmd = "a" THEN Point(float_add(args[6], curr_pos.x), float_add(args[7], curr_pos.y))
    ELSE Point(args[6], args[7])

\* arc_to_cubic_callback with the else branch of line 593 left out: the
\* straight line of an arc is not appended as an L, the arc stays
arc_to_cubic_callback_without_line(curr_pos, cmd, args) ==
    IF cmd \notin {"a", "A"} THEN <<Cmd(cmd, args)>>
    ELSE Only([result \in {arc_to_cubic(curr_pos, args[1], args[2], args[3], args[4], args[5],
                                        arc_end_pt(curr_pos, cmd, args))} |->
             [i \in 1..Len(result) |->
                 IF result[i][1] # "None" THEN Cmd("C", result[i])
                 ELSE Cmd("A", <<args[1], args[2], args[3], args[4], args[5],
                                 result[i][5], result[i][6]>>)]])

arc_to_cubic_callback(curr_pos, cmd, args) ==
    IF cmd \notin {"a", "A"} THEN <<Cmd(cmd, args)>>
    ELSE Only([result \in {arc_to_cubic(curr_pos, args[1], args[2], args[3], args[4], args[5],
                                        arc_end_pt(curr_pos, cmd, args))} |->
             [i \in 1..Len(result) |->
                 IF result[i][1] # "None" THEN Cmd("C", result[i])
                 ELSE Cmd("L", <<result[i][5], result[i][6]>>)]])

\* _next_pos for the absolute commands the callback returns: 0 + v is v
_next_pos_absolute(cmd, cmd_args) ==
    Only([idxs \in {cmd_coords(cmd)} |->
        Point(cmd_args[idxs[1][Len(idxs[1])]], cmd_args[idxs[2][Len(idxs[2])]])])

\* the inner loop of walk over what the callback returned
RECURSIVE arc_walk_emit(_, _, _, _)
arc_walk_emit(locals, new_cmds, outs, k) ==
    IF k > Len(outs) THEN <<locals, new_cmds>>
    ELSE Only([next_pos \in {_next_pos_absolute(outs[k].cmd, outs[k].args)} |->
        arc_walk_emit(
            [curr_pos |-> next_pos,
             subpath_start_pos |-> IF upper(outs[k].cmd) = "M" THEN next_pos
                                   ELSE locals.subpath_start_pos],
            Append(new_cmds, [prev_pos |-> locals.curr_pos, cmd |-> outs[k].cmd,
                              args |-> outs[k].args]),
            outs, k + 1)])

\* the paths: a move, an arc and at most one more arc
ArcStarts == {<<"0.0", "0.0">>, <<"1.0", "0.0">>}
ArcRadii == {<<"0.0", "1.0">>, <<"1.0", "1.0">>, <<"2.0", "1.0">>}
ArcFlags == {<<0, 1>>, <<1, 0>>}
ArcEnds == {<<"0.0", "0.0">>, <<"1.0", "0.0">>, <<"2.0", "0.0">>, <<"1.0", "1.0">>}
FirstArcs ==
    {Cmd(c, <<r[1], r[2], "0.0", f[1], f[2], e[1], e[2]>>) :
        c \in {"A", "a"}, r \in ArcRadii, f \in ArcFlags, e \in ArcEnds}
SecondArc == Cmd("A", <<"2.0", "1.0", "0.0", 1, 0, "1.0", "1.0">>)
ArcPaths ==
    {<<Cmd("M", s), a>> \o more :
        s \in ArcStarts, a \in FirstArcs, more \in {<<>>, <<SecondArc>>}}

ArcInit ==
    /\ docInput \in ArcPaths
    /\ docTree = <<>>
    /\ docPos = "arcs_to_cubics"
    /\ docFrontier = docInput
    /\ docOut = <<>>
    /\ docFirst = [curr_pos |-> Point("0.0", "0.0"), subpath_start_pos |-> Point("0.0", "0.0")]
    /\ docError = ""
    /\ DocOthersRest

\* one turn of walk's loop: the callback on the next command, and its commands
\* appended
ArcWalk ==
    /\ docPos = "arcs_to_cubics"
    /\ Len(docFrontier) > 0
    /\ \E done \in {arc_walk_emit(docFirst, docOut,
                        arc_to_cubic_callback(docFirst.curr_pos, Head(docFrontier).cmd,
                                              Head(docFrontier).args),
                        1)} :
        /\ docFirst' = done[1]
        /\ docOut' = done[2]
    /\ docFrontier' = Tail(docFrontier)
    /\ UNCHANGED <<docInput, docTree, docPos, docError, DocOthers>>

\* the loop is over: self.d is written from new_cmds
ArcReturn ==
    /\ docPos = "arcs_to_cubics"
    /\ Len(docFrontier) = 0
    /\ docPos' = "returned"
    /\ UNCHANGED <<docInput, docTree, docFrontier, docOut, docFirst, docError, DocOthers>>

ArcNext == ArcWalk \/ ArcReturn

SpecArc == ArcInit /\ [][ArcNext]_vars

(***************************************************************************)
(* C21: degenerate arcs.  In every turn of the walk that meets an arc, no  *)
(* A or a is appended; a zero-length arc appends nothing, an arc with a    *)
(* zero radius that has a length appends one L to its end point, every     *)
(* other arc appends one or more C; and curr_pos after the turn is the     *)
(* arc's end point.                                                        *)
(***************************************************************************)
\* the commands the turn appended
Appended == SubSeq(docOut', Len(docOut) + 1, Len(docOut'))

ArcMet == docPos = "arcs_to_cubics" /\ Len(docFrontier) > 0 /\ Head(docFrontier).cmd \in {"a", "A"}

MetArc ==
    EllipticalArc(docFirst.curr_pos, Head(docFrontier).args[1], Head(docFrontier).args[2],
                  Head(docFrontier).args[3], Head(docFrontier).args[4],
                  Head(docFrontier).args[5],
                  arc_end_pt(docFirst.curr_pos, Head(docFrontier).cmd, Head(docFrontier).args))

C21_DegenerateArcs ==
    [][ArcMet =>
          /\ \A i \in 1..Len(Appended) : Appended[i].cmd \notin {"a", "A"}
          /\ is_zero_length(MetArc) => Appended = <<>>
          /\ (is_straight_line(MetArc) /\ ~is_zero_length(MetArc)) =>
                 /\ Len(Appended) = 1
                 /\ Appended[1].cmd = "L"
                 /\ Appended[1].args = <<MetArc.end_point.x, MetArc.end_point.y>>
          /\ (~is_straight_line(MetArc) /\ ~is_zero_length(MetArc)) =>
                 /\ Len(Appended) >= 1
                 /\ \A i \in 1..Len(Appended) : Appended[i].cmd = "C"
          /\ docFirst'.curr_pos = MetArc.end_point]_vars

(***************************************************************************)
(* The commands of a parse that is not exploded, seen as groups: a command *)
(* of arity n > 0 with k * n arguments is k groups, a command of arity 0   *)
(* is one.                                                                 *)
(***************************************************************************)
Groups(c) ==
    IF num_args(c.cmd) = 0 THEN 1 ELSE Len(c.args) \div num_args(c.cmd)

\* the groups of the commands before the j-th
RECURSIVE GroupsBefore(_, _)
GroupsBefore(cmds, j) ==
    IF j <= 1 THEN 0 ELSE GroupsBefore(cmds, j - 1) + Groups(cmds[j - 1])

RepeatLetter(cmd) == IF cmd = "M" THEN "L" ELSE IF cmd = "m" THEN "l" ELSE cmd

(***************************************************************************)
(* C22: explode mode. For a command of arity n > 0 followed by k * n       *)
(* numbers (k >= 1), parse_svg_path with exploded=True yields exactly k    *)
(* commands of n arguments each, the arguments in their original order;    *)
(* the first keeps the written letter and each later one uses the          *)
(* implicit-repeat letter (M is followed by L, m by l, every other letter  *)
(* repeats itself). With exploded=False the same input yields one command  *)
(* carrying all k * n arguments.                                           *)
(***************************************************************************)
C22_ExplodeMode ==
    (txtPhase # "init" /\ txtCmds.ok) =>
        Only([written \in {split_cmds(txtD, 1, <<>>)} |->
        Only([plain \in {parse_svg_path(txtD, FALSE).cmds} |->
            /\ Len(plain) = Len(written)
            /\ \A j \in 1..Len(plain) :
                /\ plain[j].cmd = written[j].cmd
                /\ plain[j].args = _parse_args(written[j].cmd, strip(written[j].raw)).args
            /\ IF ~txtExploded THEN txtCmds.cmds = plain
               ELSE /\ Len(txtCmds.cmds) = GroupsBefore(plain, Len(plain) + 1)
                    /\ \A j \in 1..Len(plain) :
                        LET n == num_args(plain[j].cmd)
                            at == GroupsBefore(plain, j)
                        IN  (n > 0 /\ Groups(plain[j]) >= 1) =>
                                \A i \in 1..Groups(plain[j]) :
                                    /\ txtCmds.cmds[at + i].cmd =
                                           IF i = 1 THEN plain[j].cmd
                                           ELSE RepeatLetter(plain[j].cmd)
                                    /\ txtCmds.cmds[at + i].args =
                                           SubSeq(plain[j].args, (i - 1) * n + 1, i * n)])])

\* an exploded parse of a relative move followed by two more coordinate pairs,
\* and of a horizontal line with two lengths
C22_Witness ==
    /\ txtPhase = "parsed"
    /\ txtCmds.ok
    /\ txtExploded
    /\ \E c \in {parse_svg_path(txtD, FALSE).cmds} :
        /\ Len(c) = 1
        /\ c[1].cmd = "m"
        /\ Len(c[1].args) = 6
    /\ Len(txtCmds.cmds) = 3
    /\ txtCmds.cmds[3].cmd = "l"

(***************************************************************************)
(* svg_transform.py: parse_svg_transform over the text of the attribute.   *)
(* A text is a sequence of characters.  The walk is the text in docInput,  *)
(* the matches of re.finditer not yet visited in docFrontier and the       *)
(* local transform in docOut.                                              *)
(***************************************************************************)
TransformOps == <<"matrix", "translate", "scale", "rotate", "skewx", "skewy">>
TransformOpLetters ==
    <<<<"m", "a", "t", "r", "i", "x">>,
      <<"t", "r", "a", "n", "s", "l", "a", "t", "e">>,
      <<"s", "c", "a", "l", "e">>,
      <<"r", "o", "t", "a", "t", "e">>,
      <<"s", "k", "e", "w", "x">>,
      <<"s", "k", "e", "w", "y">>>>

\* the (?i) of the pattern, for the letters the names are written with
CapitalLetters ==
    <<"A", "C", "E", "I", "K", "L", "M", "N", "O", "R", "S", "T", "W", "X", "Y">>
SmallLetters ==
    <<"a", "c", "e", "i", "k", "l", "m", "n", "o", "r", "s", "t", "w", "x", "y">>
casefold(ch) ==
    IF \E i \in 1..Len(CapitalLetters) : CapitalLetters[i] = ch
    THEN SmallLetters[CHOOSE i \in 1..Len(CapitalLetters) : CapitalLetters[i] = ch]
    ELSE ch

\* the first index at or after p that holds no space
RECURSIVE SpacesEnd(_, _)
SpacesEnd(s, p) == IF p <= Len(s) /\ s[p] = " " THEN SpacesEnd(s, p + 1) ELSE p

\* the first index at or after p that holds ")", 0 if there is none
RECURSIVE CloseAt(_, _)
CloseAt(s, p) ==
    IF p > Len(s) THEN 0 ELSE IF s[p] = ")" THEN p ELSE CloseAt(s, p + 1)

\* the name of the alternation that is written at p, 0 if none is
OpAt(s, p) ==
    IF \E k \in 1..Len(TransformOps) :
           /\ p + Len(TransformOpLetters[k]) - 1 <= Len(s)
           /\ \A i \in 1..Len(TransformOpLetters[k]) :
                  casefold(s[p + i - 1]) = TransformOpLetters[k][i]
    THEN CHOOSE k \in 1..Len(TransformOps) :
           /\ p + Len(TransformOpLetters[k]) - 1 <= Len(s)
           /\ \A i \in 1..Len(TransformOpLetters[k]) :
                  casefold(s[p + i - 1]) = TransformOpLetters[k][i]
    ELSE 0

\* the match of (matrix|...|skewY)\s*\(([^)]*)\) that starts at p:
\* [found, op: group(1).lower(), group2, end: the index after the match]
NoMatch == [found |-> FALSE, op |-> "", group2 |-> <<>>, end |-> 0]
match_at(s, p) ==
    Only([k \in {OpAt(s, p)} |->
        IF k = 0 THEN NoMatch
        ELSE Only([open \in {SpacesEnd(s, p + Len(TransformOpLetters[k]))} |->
                 IF open > Len(s) \/ s[open] # "(" THEN NoMatch
                 ELSE Only([close \in {CloseAt(s, open + 1)} |->
                          IF close = 0 THEN NoMatch
                          ELSE [found |-> TRUE, op |-> TransformOps[k],
                                group2 |-> SubSeq(s, open + 1, close - 1),
                                end |-> close + 1]])])])

\* re.finditer(pattern, raw_transform): the matches from left to right, the
\* text between them passed over
RECURSIVE finditer(_, _, _)
finditer(raw_transform, p, matches) ==
    IF p > Len(raw_transform) THEN matches
    ELSE Only([m \in {match_at(raw_transform, p)} |->
             IF m.found THEN finditer(raw_transform, m.end, Append(matches, m))
             ELSE finditer(raw_transform, p + 1, matches)])

\* re.split(r"\s*[,\s]\s*", s): a separator is a run of spaces with at most
\* one comma in it
RECURSIVE re_split(_, _, _, _)
re_split(s, p, cur, out) ==
    IF p > Len(s) THEN Append(out, cur)
    ELSE IF s[p] \in {" ", ","}
    THEN Only([q \in {SpacesEnd(s, p)} |->
             re_split(s, IF q <= Len(s) /\ s[q] = "," THEN SpacesEnd(s, q + 1) ELSE q,
                      <<>>, Append(out, cur))])
    ELSE re_split(s, p + 1, Append(cur, s[p]), out)

\* the rational a parsed decimal is
DecRat(v) ==
    IF v.e >= 0 THEN Rat(v.sign * v.m * Pow10(v.e))
    ELSE RDiv(Rat(v.sign * v.m), Rat(Pow10(0 - v.e)))

\* float(p) returns for the texts _FLOAT_RE matches whole, and raises
\* ValueError for every other text of the model (none is written with an
\* underscore, a dot that ends it, or as inf or nan)
float_returns(p) == Len(p) > 0 /\ FloatMatch(p) = Len(p)

\* the numbers of arguments the method of Affine2D takes
op_takes(op, n) ==
    IF op = "matrix" THEN n = 6
    ELSE IF op \in {"translate", "scale"} THEN n \in 1..2
    ELSE IF op = "rotate" THEN n \in 1..3
    ELSE n = 1

\* one turn of the for loop: [error, transform]; the texts of the model hold
\* no rotate and no skew with arguments it accepts
transform_step(transform, match) ==
    Only([texts \in {re_split(strip(match.group2), 1, <<>>, <<>>)} |->
        IF \E i \in 1..Len(texts) : ~float_returns(texts[i])
        THEN [error |-> "ValueError", transform |-> transform]
        ELSE IF ~op_takes(match.op, Len(texts))
        THEN [error |-> "TypeError", transform |-> transform]
        ELSE [error |-> "",
              transform |-> apply_transform_op(
                  transform,
                  [op |-> match.op, args |-> [i \in 1..Len(texts) |-> DecRat(float(texts[i]))]])]])

Letters(op) == TransformOpLetters[CHOOSE k \in 1..Len(TransformOps) : TransformOps[k] = op]
Call(name, args) == name \o <<"(">> \o args \o <<")">>

ArgTexts ==
    {<<"1">>, <<"1", ",", "2">>, <<"1", " ", "2">>, <<" ", "1", " ", ",", " ", "2", " ">>,
     <<".", "5", ",", "-", "1">>}

\* one function of a transform list
OneTransform ==
    {Call(Letters(op), a) : op \in {"translate", "scale"}, a \in ArgTexts}
    \cup {Call(Letters("matrix"), <<"1", " ", "0", " ", "0", " ", "1", " ", "2", " ", "3">>),
          Letters("scale") \o <<" ">> \o Call(<<>>, <<"2">>)}

\* transform lists of the grammar of SVG: functions with spaces or a comma
\* between them
WellFormedTransforms ==
    OneTransform
    \cup {t \o sep \o Call(Letters("scale"), <<"2">>) :
              t \in OneTransform, sep \in {<<" ">>, <<",">>, <<",", " ">>}}

\* the names written with capitals, which the pattern takes as well
CapitalTransforms == {Call(<<"S", "c", "a", "l", "e">>, <<"2">>), Call(<<"T", "R", "A", "N", "S", "L", "A", "T", "E">>, <<"1">>)}

UnknownFunction ==
    {Call(<<"f", "o", "o">>, a) : a \in ArgTexts}
    \cup {Call(<<"f", "o", "o">>, <<"1">>) \o <<" ">> \o t : t \in OneTransform}
StrayText ==
    {t \o <<"x">> : t \in OneTransform}
    \cup {<<"x", " ">> \o t : t \in OneTransform}
    \cup {t \o <<" ", "1", " ">> \o t : t \in OneTransform}
UnbalancedParentheses ==
    {Letters(op) \o <<"(">> \o a : op \in {"translate", "scale"}, a \in ArgTexts}
    \cup {Letters(op) \o a \o <<")">> : op \in {"translate", "scale"}, a \in ArgTexts}
    \cup {Letters(op) \o <<"(", "(">> \o a \o <<")">> : op \in {"translate", "scale"}, a \in ArgTexts}
    \cup {t \o <<")">> : t \in OneTransform}
NonNumericArguments ==
    {Call(Letters(op), a) :
        op \in {"translate", "scale"},
        a \in {<<"x">>, <<>>, <<"1", ",", ",", "2">>, <<"1", "p", "x">>, <<"1", ",">>}}
WrongArgumentCount ==
    {Call(Letters(op), <<"1", ",", "2", ",", "3">>) : op \in {"translate", "scale", "matrix"}}
    \cup {Call(Letters("matrix"), a) : a \in ArgTexts}

MalformedTransforms ==
    UnknownFunction \cup StrayText \cup UnbalancedParentheses \cup NonNumericArguments
    \cup WrongArgumentCount

TransformTexts == WellFormedTransforms \cup CapitalTransforms \cup MalformedTransforms

TransformInit ==
    /\ docInput \in TransformTexts
    /\ docTree = <<>>
    /\ docPos = "parse_svg_transform"
    /\ docFrontier = finditer(docInput, 1, <<>>)
    /\ docOut = identity
    /\ docFirst = <<>>
    /\ docError = ""
    /\ DocOthersRest

\* one turn of the for loop over the matches
TransformMatch ==
    /\ docPos = "parse_svg_transform"
    /\ Len(docFrontier) > 0
    /\ \E step \in {transform_step(docOut, Head(docFrontier))} :
        /\ docOut' = step.transform
        /\ docError' = step.error
        /\ docPos' = IF step.error # "" THEN "raised" ELSE docPos
    /\ docFrontier' = Tail(docFrontier)
    /\ UNCHANGED <<docInput, docTree, docFirst, DocOthers>>

\* there is no match left: return transform
TransformReturn ==
    /\ docPos = "parse_svg_transform"
    /\ Len(docFrontier) = 0
    /\ docPos' = "returned"
    /\ UNCHANGED <<docInput, docTree, docFrontier, docOut, docFirst, docError, DocOthers>>

TransformNext == TransformMatch \/ TransformReturn

SpecTransform == TransformInit /\ [][TransformNext]_vars

(***************************************************************************)
(* C23: malformed transform syntax is always surfaced.  parse_svg_transform*)
(* raises for every text that is not a well-formed transform list (unknown *)
(* function name, stray text between or after functions, unbalanced        *)
(* parentheses, non-numeric arguments, wrong argument count); it never     *)
(* returns the identity or a partial transform for one.                    *)
(***************************************************************************)
C23_MalformedSurfaced ==
    (docPos = "returned" /\ docError = "") => docInput \notin MalformedTransforms

(***************************************************************************)
(* svg_transform.py: Affine2D.decompose_translation.  What the call gives  *)
(* is [error, translation, remaining]: error is "" where it returns, and   *)
(* the name of the exception where it raises.                              *)
(***************************************************************************)
Affine2D_almost_equals(self, other, tolerance) ==
    /\ almost_equal(self.a, other.a, tolerance)
    /\ almost_equal(self.b, other.b, tolerance)
    /\ almost_equal(self.c, other.c, tolerance)
    /\ almost_equal(self.d, other.d, tolerance)
    /\ almost_equal(self.e, other.e, tolerance)
    /\ almost_equal(self.f, other.f, tolerance)

Decomposed(translation, remaining) ==
    [error |-> "", translation |-> translation, remaining |-> remaining]
DecomposeRaised(error) == [error |-> error, translation |-> <<>>, remaining |-> <<>>]

\* the last two statements: the translation, and the sanity check
decompose_check(self, affine_prime, x_prime, y_prime) ==
    Only([translation \in {translate(identity, x_prime, y_prime)} |->
        IF Affine2D_almost_equals(self, compose_ltr(<<translation, affine_prime>>),
                                  DEFAULT_ALMOST_EQUAL_TOLERANCE)
        THEN Decomposed(translation, affine_prime)
        ELSE DecomposeRaised("AssertionError")])

decompose_translation(self) ==
    Only([affine_prime \in {[self EXCEPT !.e = Zero, !.f = Zero]} |->
        IF Affine2D_almost_equals(self, affine_prime, DEFAULT_ALMOST_EQUAL_TOLERANCE)
        THEN Decomposed(identity, affine_prime)
        ELSE LET r == map_point(self, Point(Zero, Zero))
             IN  IF ~almost_equal(self.a, Zero, DEFAULT_ALMOST_EQUAL_TOLERANCE)
                 THEN \* self.a is not 0.0: the divisions by a are defined
                      Only([divisor \in {RSub(self.d, RDiv(RMul(self.b, self.c), self.a))} |->
                          IF divisor = Zero THEN DecomposeRaised("ZeroDivisionError")
                          ELSE Only([y_prime \in {RDiv(RSub(r.y, RDiv(RMul(r.x, self.b), self.a)),
                                                       divisor)} |->
                                   decompose_check(self, affine_prime,
                                                   RDiv(RSub(r.x, RMul(self.c, y_prime)), self.a),
                                                   y_prime)])])
                 ELSE IF self.c = Zero \/ self.b = Zero
                 THEN DecomposeRaised("ZeroDivisionError")
                 ELSE Only([y_prime \in {RDiv(self.e, self.c)} |->
                          decompose_check(self, affine_prime,
                                          RSub(RDiv(self.f, self.b),
                                               RDiv(RMul(self.d, y_prime), self.b)),
                                          y_prime)])])

DecomposeTranslation ==
    /\ affOp = "init"
    /\ affOut' = decompose_translation(affA)
    /\ affOp' = "decompose_translation"
    /\ UNCHANGED <<affA, affB, pathVars, txtVars, reuseVars, picoVars, docVars>>

DecomposeNext == DecomposeTranslation

SpecDecompose == AffInit /\ [][DecomposeNext]_vars

(***************************************************************************)
(* C24: decompose_translation is total and exact.  For every affine M,     *)
(* degenerate ones with a translation included, it returns a pair          *)
(* (translate, remaining) without raising; and for a non-degenerate M,     *)
(* remaining has no translation, translate is a pure translation, and      *)
(* translate followed by remaining is M within the tolerance.              *)
(***************************************************************************)
C24_DecomposeTotal ==
    affOp = "decompose_translation" =>
        /\ affOut.error = ""
        /\ ~is_degenerate(affA) =>
            /\ affOut.remaining.e = Zero
            /\ affOut.remaining.f = Zero
            /\ affOut.translation =
                   Affine2D(One, Zero, Zero, One, affOut.translation.e, affOut.translation.f)
            /\ Affine2D_almost_equals(
                   compose_ltr(<<affOut.translation, affOut.remaining>>), affA,
                   DEFAULT_ALMOST_EQUAL_TOLERANCE)

(***************************************************************************)
(* svg_pathops.py: skia_path, svg_commands, _do_pathop, union and          *)
(* intersection.  pathops is a library outside the repository: what        *)
(* pathops.op and Path.simplify leave in the path is any of SkiaSegments.  *)
(* What a call gives is [none, cmds]: none is TRUE where it returns None.  *)
(* The call is in docInput, what it returned in docOut, the d of the path  *)
(* built from that in docFirst.                                            *)
(***************************************************************************)
_SVG_CMD_TO_SKIA_FN == {"M", "L", "Q", "Z", "C"}
_SVG_FILL_RULE_TO_SKIA_FILL_TYPE == {"nonzero", "evenodd"}

\* the exception skia_path raises, "" where it returns the path
skia_path(svg_cmds, fill_rule) ==
    IF fill_rule \notin _SVG_FILL_RULE_TO_SKIA_FILL_TYPE THEN "ValueError"
    ELSE IF \E i \in 1..Len(svg_cmds) : svg_cmds[i].cmd \notin _SVG_CMD_TO_SKIA_FN
    THEN "ValueError"
    ELSE ""

\* a segment of a pathops.Path is [cmd |-> name, points |-> points]; a
\* qCurveTo of the model has one control point
_SKIA_CMD_TO_SVG_CMD(segment) ==
    LET flat == IF Len(segment.points) = 0 THEN <<>>
                ELSE IF Len(segment.points) = 1 THEN segment.points[1]
                ELSE IF Len(segment.points) = 2 THEN segment.points[1] \o segment.points[2]
                ELSE segment.points[1] \o segment.points[2] \o segment.points[3]
    IN  IF segment.cmd = "moveTo" THEN <<Cmd("M", flat)>>
        ELSE IF segment.cmd = "lineTo" THEN <<Cmd("L", flat)>>
        ELSE IF segment.cmd \in {"quadTo", "qCurveTo"} THEN <<Cmd("Q", flat)>>
        ELSE IF segment.cmd = "curveTo" THEN <<Cmd("C", flat)>>
        ELSE IF segment.cmd = "closePath" THEN <<Cmd("Z", flat)>>
        ELSE <<>>

RECURSIVE svg_commands(_)
svg_commands(segments) ==
    IF Len(segments) = 0 THEN <<>>
    ELSE _SKIA_CMD_TO_SVG_CMD(Head(segments)) \o svg_commands(Tail(segments))

ReturnedNothing == [none |-> TRUE, cmds |-> <<>>]
ReturnedCmds(cmds) == [none |-> FALSE, cmds |-> cmds]

\* the exception _do_pathop raises before it reaches pathops, "" if none
RECURSIVE skia_paths(_, _, _)
skia_paths(svg_cmd_seqs, fill_rules, i) ==
    IF i > Len(svg_cmd_seqs) \/ i > Len(fill_rules) THEN ""
    ELSE IF skia_path(svg_cmd_seqs[i], fill_rules[i]) # ""
    THEN skia_path(svg_cmd_seqs[i], fill_rules[i])
    ELSE skia_paths(svg_cmd_seqs, fill_rules, i + 1)

_do_pathop_raises(svg_cmd_seqs, fill_rules) ==
    IF Len(svg_cmd_seqs) # Len(fill_rules) THEN "AssertionError"
    ELSE skia_paths(svg_cmd_seqs, fill_rules, 1)

DecTwo == Dec(1, 2, 0)
SkPoint(x, y) == <<x, y>>
SkiaSegments ==
    {<<>>,
     <<[cmd |-> "moveTo", points |-> <<SkPoint(DecZero, DecZero)>>],
       [cmd |-> "lineTo", points |-> <<SkPoint(DecTwo, DecZero)>>],
       [cmd |-> "lineTo", points |-> <<SkPoint(DecTwo, DecTwo)>>],
       [cmd |-> "closePath", points |-> <<>>]>>,
     <<[cmd |-> "moveTo", points |-> <<SkPoint(DecZero, DecZero)>>],
       [cmd |-> "qCurveTo", points |-> <<SkPoint(DecTwo, DecZero), SkPoint(DecTwo, DecTwo)>>],
       [cmd |-> "curveTo", points |-> <<SkPoint(DecTwo, DecZero), SkPoint(DecZero, DecTwo),
                                        SkPoint(DecZero, DecZero)>>],
       [cmd |-> "closePath", points |-> <<>>],
       [cmd |-> "endPath", points |-> <<>>]>>}

\* the command sequences handed to the operation: of a square, of curves, of
\* an empty path, and two that skia_path has no mapping for
PathopCmdSeqs ==
    {<<Cmd("M", <<DecZero, DecZero>>), Cmd("L", <<DecTwo, DecZero>>),
       Cmd("L", <<DecTwo, DecTwo>>), Cmd("Z", <<>>)>>,
     <<Cmd("M", <<DecZero, DecZero>>), Cmd("Q", <<DecTwo, DecZero, DecTwo, DecTwo>>),
       Cmd("C", <<DecTwo, DecZero, DecZero, DecTwo, DecZero, DecZero>>), Cmd("Z", <<>>)>>,
     <<>>,
     <<Cmd("M", <<DecZero, DecZero>>), Cmd("l", <<DecTwo, DecZero>>)>>,
     <<Cmd("M", <<DecZero, DecZero>>), Cmd("H", <<DecTwo>>)>>}
PathopFillRules == {"nonzero", "evenodd", "winding"}
MaxPathopSeqs == 2

UpTo(S, n) == UNION {[1..k -> S] : k \in 0..n}

PathopCalls ==
    [op : {"union", "intersection"},
     svg_cmd_seqs : UpTo(PathopCmdSeqs, MaxPathopSeqs),
     fill_rules : UpTo(PathopFillRules, MaxPathopSeqs)]

PathopInit ==
    /\ docInput \in PathopCalls
    /\ docTree = <<>>
    /\ docPos = "_do_pathop"
    /\ docFrontier = <<>>
    /\ docOut = ReturnedCmds(<<>>)
    /\ docFirst = <<>>
    /\ docError = ""
    /\ DocOthersRest

\* union(svg_cmd_seqs, fill_rules) or intersection(svg_cmd_seqs, fill_rules),
\* with no sequence: the bare return
PathopOfNothing ==
    /\ docPos = "_do_pathop"
    /\ Len(docInput.svg_cmd_seqs) = 0
    /\ docOut' = ReturnedNothing
    /\ docPos' = "returned"
    /\ UNCHANGED <<docInput, docTree, docFrontier, docFirst, docError, DocOthers>>

\* with sequences, up to the call of pathops: an assertion or skia_path fails
PathopRaise ==
    /\ docPos = "_do_pathop"
    /\ Len(docInput.svg_cmd_seqs) > 0
    /\ _do_pathop_raises(docInput.svg_cmd_seqs, docInput.fill_rules) # ""
    /\ docError' = _do_pathop_raises(docInput.svg_cmd_seqs, docInput.fill_rules)
    /\ docPos' = "raised"
    /\ UNCHANGED <<docInput, docTree, docFrontier, docOut, docFirst, DocOthers>>

\* with sequences, the whole call: svg_commands of what pathops left
PathopReturn ==
    /\ docPos = "_do_pathop"
    /\ Len(docInput.svg_cmd_seqs) > 0
    /\ _do_pathop_raises(docInput.svg_cmd_seqs, docInput.fill_rules) = ""
    /\ \E segments \in SkiaSegments : docOut' = ReturnedCmds(svg_commands(segments))
    /\ docPos' = "returned"
    /\ UNCHANGED <<docInput, docTree, docFrontier, docFirst, docError, DocOthers>>

\* SVGPath.from_commands(result).d, as _resolve_clip_path builds the clip:
\* the for loop of update_path over the result
PathopFromCommands ==
    /\ docPos = "returned"
    /\ IF docOut.none
       THEN /\ docError' = "TypeError"
            /\ docPos' = "raised"
            /\ UNCHANGED docFirst
       ELSE /\ docFirst' = from_commands(docOut.cmds)
            /\ docPos' = "built"
            /\ UNCHANGED docError
    /\ UNCHANGED <<docInput, docTree, docFrontier, docOut, DocOthers>>

PathopNext == PathopOfNothing \/ PathopRaise \/ PathopReturn \/ PathopFromCommands

SpecPathop == PathopInit /\ [][PathopNext]_vars

(***************************************************************************)
(* C25: boolean operations on empty input.  union and intersection called  *)
(* with an empty list of command sequences return an empty command         *)
(* sequence, never None and never an error, so the path built from the     *)
(* result is the empty path.                                               *)
(***************************************************************************)
C25_EmptyInput ==
    (docPos # "_do_pathop" /\ Len(docInput.svg_cmd_seqs) = 0) =>
        /\ ~docOut.none
        /\ docOut.cmds = <<>>
        /\ docError = ""
        /\ docFirst = <<>>

(***************************************************************************)
(* svg.py: the operations of an SVG with inplace=True and inplace=False,   *)
(* after earlier operations on the same object.  The receiver is docTree   *)
(* (self.svg_root) and docFrontier (self.elements); docFirst names the     *)
(* operations it has been through; docOut is what the last call returned   *)
(* and what it is compared with.                                           *)
(***************************************************************************)
MaxEarlier == 2

InplaceDocuments == {El("svg", NoAttrib, <<p, q>>) : p \in PathDocs, q \in PathDocs}

Receiver == Svg(docTree, docFrontier, "")

\* svg.tostring(): _update_etree, then the text of the tree
Shown(svg) == tostring(_update_etree(svg.tree, svg.elements).tree, svg_root)

\* op(inplace=True) on svg
absolute_inplace(svg) ==
    EachShape(svg.tree, svg.elements, LAMBDA shape : [shape EXCEPT !.d = absolute(@)])
round_floats_inplace(svg) ==
    EachShape(svg.tree, svg.elements, LAMBDA shape : round_floats(shape, ndigits))
operation_inplace(op, svg) ==
    IF op = "absolute" THEN absolute_inplace(svg) ELSE round_floats_inplace(svg)

\* op(inplace=False) on svg: svg = SVG(copy.deepcopy(self.svg_root)), then
\* svg.op(inplace=True)
operation_copying(op, svg) == operation_inplace(op, Svg(deepcopy(svg.tree), <<>>, ""))

InplaceInit ==
    /\ docInput \in InplaceDocuments
    /\ docTree = fromstring(docInput)
    /\ docPos = "ready"
    /\ docFrontier = <<>>
    /\ docOut = <<>>
    /\ docFirst = <<>>
    /\ docError = ""
    /\ DocOthersRest

\* self.absolute(inplace=True) or self.round_floats(ndigits, inplace=True)
EarlierInplace ==
    /\ docPos = "ready"
    /\ Len(docFirst) < MaxEarlier
    /\ \E op \in {"absolute", "round_floats"} :
        /\ docFrontier' = operation_inplace(op, Receiver).elements
        /\ docFirst' = Append(docFirst, op)
    /\ UNCHANGED <<docInput, docTree, docPos, docOut, docError, DocOthers>>

\* self.tostring(), which writes self.elements to the tree
EarlierTostring ==
    /\ docPos = "ready"
    /\ Len(docFirst) < MaxEarlier
    /\ docTree' = _update_etree(docTree, docFrontier).tree
    /\ docFrontier' = <<>>
    /\ docFirst' = Append(docFirst, "tostring")
    /\ UNCHANGED <<docInput, docPos, docOut, docError, DocOthers>>

\* the call with inplace=False, kept with what the receiver showed before it
\* and with what inplace=True gives on SVG.fromstring(self.tostring())
CallCopying ==
    /\ docPos = "ready"
    /\ \E op \in {"absolute", "round_floats"} :
        docOut' = [op |-> op,
                   before |-> Shown(Receiver),
                   copying |-> Shown(operation_copying(op, Receiver)),
                   inplace |-> Shown(operation_inplace(
                                   op, Svg(fromstring(Shown(Receiver)), <<>>, "")))]
    /\ docPos' = "called"
    /\ UNCHANGED <<docInput, docTree, docFrontier, docFirst, docError, DocOthers>>

InplaceNext == EarlierInplace \/ EarlierTostring \/ CallCopying

SpecInplace == InplaceInit /\ [][InplaceNext]_vars

(***************************************************************************)
(* C26: in-place and copying modes agree.  After any sequence of earlier   *)
(* in-place operations, those that left edits in the cached shape list     *)
(* included, an operation called with inplace=False returns a document     *)
(* equal to what the operation with inplace=True gives on a faithful copy  *)
(* of what the receiver shows, and the receiver shows what it did before.  *)
(***************************************************************************)
C26_ModesAgree ==
    docPos = "called" =>
        /\ docOut.copying = docOut.inplace
        /\ Shown(Receiver) = docOut.before

(***************************************************************************)
(* resolve_use on documents whose use elements lead back to themselves,    *)
(* with the loop of _resolve_use taking its turns: the while loop runs     *)
(* on for as long as a round can start.                                    *)
(***************************************************************************)
\* <use id="u" xlink:href="#u"/>: the use is its own target
UseOfItself == El("use", update([id |-> "u"], Href(<<"#", "u">>)), <<>>)
\* <g id="g"><use xlink:href="#c"/></g> with <g id="c"><use xlink:href="#g"/></g>
UseEachOther ==
    <<El("g", [id |-> "g"], <<El("use", Href(<<"#", "c">>), <<>>)>>),
      El("g", [id |-> "c"], <<El("use", Href(<<"#", "g">>), <<>>)>>)>>

CyclicUseDocuments ==
    {El("svg", NoAttrib, <<UseOfItself>>),
     El("svg", NoAttrib, <<UseTargetPath, UseOfItself>>),
     El("svg", NoAttrib, <<UseTargetCycle>>),
     El("svg", NoAttrib, UseEachOther)}

\* docFrontier holds use_els, what the xpath of the loop head has found
UseLoopInit ==
    /\ docInput \in UseDocuments \cup CyclicUseDocuments
    /\ docTree = fromstring(docInput)
    /\ docPos = "_resolve_use"
    /\ docFrontier = use_els_of(docTree)
    /\ docOut = <<>>
    /\ docFirst = el_by_id(docTree)
    /\ docError = ""
    /\ DocOthersRest

\* the guard of the round: the loop has use elements left to replace, and the
\* document is within the size the model follows
RoundCanStart ==
    /\ docPos = "_resolve_use"
    /\ Len(docTree) <= MaxElements
    /\ Len(docFrontier) > 0

\* one turn of the while loop: every use element found is replaced, and the
\* loop head looks for use elements again
UseLoopRound ==
    /\ RoundCanStart
    /\ \E st \in {resolve_round(Ok(docTree), docFirst, docFrontier, 1, <<>>)} :
        /\ docTree' = st.tree
        /\ docError' = st.error
        /\ docPos' = IF st.error # "" THEN "raised" ELSE docPos
        /\ docFrontier' = IF st.error # "" THEN docFrontier ELSE use_els_of(st.tree)
    /\ UNCHANGED <<docInput, docOut, docFirst, DocOthers>>

\* if not use_els: break
UseLoopBreak ==
    /\ docPos = "_resolve_use"
    /\ Len(docFrontier) = 0
    /\ docPos' = "returned"
    /\ UNCHANGED <<docInput, docTree, docFrontier, docOut, docFirst, docError, DocOthers>>

UseLoopNext == UseLoopRound \/ UseLoopBreak

\* The while loop of _resolve_use runs in one thread: whichever of its two
\* branches can be taken is taken.  The weak fairness of the round is written
\* out with its guard: a step of UseLoopNext that leaves a state where the
\* round can start is a step of UseLoopRound, the break having the opposite
\* guard, so the condition is WF_vars(UseLoopRound).
SpecUseLoop ==
    /\ UseLoopInit
    /\ [][UseLoopNext]_vars
    /\ WF_vars(UseLoopBreak)
    /\ ([]<>(~RoundCanStart) \/ []<><<RoundCanStart>>_vars)

\* what the loop of _resolve_use reads: the document, and the elements that
\* el_by_id captured before the loop, in the tree or taken out of it
LoopReads(tree) ==
    <<tostring(tree, svg_root), [id \in DOMAIN docFirst |-> tostring(tree, docFirst[id])]>>

(***************************************************************************)
(* C27: resolve_use terminates on every finite document, also when a use   *)
(* references itself, one of its ancestors, or an element that contains a  *)
(* use pointing back at it.  The loop is deterministic in what it reads,   *)
(* so it ends only if no turn that stays in the loop leaves the document   *)
(* and the captured elements as it found them: after such a turn every     *)
(* later turn is the same turn.                                            *)
(***************************************************************************)
C27_ResolveUseTerminates ==
    [][docPos' = "_resolve_use" => LoopReads(docTree') # LoopReads(docTree)]_vars

(***************************************************************************)
(* svg_types.py: SVGShape.as_cmd_seq, the four rewrites of a path one      *)
(* after the other, and svg_pathops.skia_path on what they leave.  The     *)
(* path is in docInput, self.d between the rewrites in docTree, the        *)
(* rewrite that ran last in docPos and what skia_path raised in docError.  *)
(* The first three rewrites compute with the numbers of the path; the      *)
(* arcs are looked up in ArcCubics by the repr of their floats.            *)
(***************************************************************************)
\* repr of a number of the path: the whole numbers as WholeFloats has them;
\* another number is written as the model holds it, no arc starts there
arc_float(v) ==
    IF v[2] = 1 /\ v[1] >= 0 /\ v[1] < Len(WholeFloats) THEN WholeFloats[v[1] + 1]
    ELSE ToString(v)

\* the arguments of an arc as arc_to_cubic takes them
arc_args_repr(args) ==
    <<arc_float(args[1]), arc_float(args[2]), arc_float(args[3]), args[4][1], args[5][1],
      arc_float(args[6]), arc_float(args[7])>>

\* the inner loop of walk over what the callback returned, all commands being
\* absolute by now; curr_pos is kept as the repr of its floats, which the
\* commands made of an arc have already
RECURSIVE cubics_walk_emit(_, _, _, _, _)
cubics_walk_emit(locals, new_cmds, outs, k, of_arc) ==
    IF k > Len(outs) THEN <<locals, new_cmds>>
    ELSE Only([next_pos \in {
                 IF lower(outs[k].cmd) = "z" THEN locals.subpath_start_pos
                 ELSE IF of_arc THEN _next_pos_absolute(outs[k].cmd, outs[k].args)
                 ELSE Only([pos \in {_next_pos_absolute(outs[k].cmd, outs[k].args)} |->
                         Point(arc_float(pos.x), arc_float(pos.y))])} |->
        cubics_walk_emit(
            [curr_pos |-> next_pos,
             subpath_start_pos |-> IF upper(outs[k].cmd) = "M" THEN next_pos
                                   ELSE locals.subpath_start_pos],
            Append(new_cmds, [prev_pos |-> locals.curr_pos, cmd |-> outs[k].cmd,
                              args |-> outs[k].args]),
            outs, k + 1, of_arc)])

\* SVGPath.arcs_to_cubics: walk with arc_to_cubic_callback, from command idx on
RECURSIVE arcs_to_cubics_from(_, _, _, _)
arcs_to_cubics_from(d, idx, locals, new_cmds) ==
    IF idx > Len(d) THEN [i \in 1..Len(new_cmds) |-> Cmd(new_cmds[i].cmd, new_cmds[i].args)]
    ELSE Only([done \in {cubics_walk_emit(locals, new_cmds,
                            arc_to_cubic_callback(
                                locals.curr_pos, d[idx].cmd,
                                IF d[idx].cmd \in {"a", "A"} THEN arc_args_repr(d[idx].args)
                                ELSE d[idx].args),
                            1, d[idx].cmd \in {"a", "A"})} |->
        arcs_to_cubics_from(d, idx + 1, done[1], done[2])])

arcs_to_cubics(d) ==
    arcs_to_cubics_from(d, 1, [curr_pos |-> Point("0.0", "0.0"),
                               subpath_start_pos |-> Point("0.0", "0.0")], <<>>)

\* the arcs of FirstArcs and SecondArc with the numbers of the path
CmdSeqArcs ==
    {Cmd(c, <<Rat(r[1]), Rat(r[2]), Zero, Rat(f[1]), Rat(f[2]), Rat(e[1]), Rat(e[2])>>) :
        c \in {"A", "a"}, r \in {<<0, 1>>, <<1, 1>>, <<2, 1>>}, f \in {<<0, 1>>, <<1, 0>>},
        e \in {<<0, 0>>, <<1, 0>>, <<2, 0>>, <<1, 1>>}}
CmdSeqSecondArc == Cmd("A", <<Rat(2), One, Zero, One, Zero, One, One>>)

\* what comes before the arc leaves the pen at (0, 0) or (1, 0)
CmdSeqBefore ==
    {<<Cmd("M", <<Zero, Zero>>)>>, <<Cmd("M", <<One, Zero>>)>>, <<Cmd("m", <<One, Zero>>)>>,
     <<Cmd("M", <<Zero, Zero>>), Cmd("h", <<One>>)>>,
     <<Cmd("M", <<Zero, Zero>>), Cmd("V", <<Zero>>)>>,
     <<Cmd("M", <<Zero, Zero>>), Cmd("t", <<One, Zero>>)>>,
     <<Cmd("M", <<One, Zero>>), Cmd("l", <<One, One>>), Cmd("z", <<>>)>>}

CmdSeqAfter ==
    {<<>>, <<CmdSeqSecondArc>>, <<Cmd("z", <<>>)>>, <<Cmd("v", <<One>>)>>, <<Cmd("H", <<Rat(2)>>)>>,
     <<Cmd("s", <<One, One, One, Zero>>)>>, <<Cmd("T", <<One, Zero>>)>>,
     <<Cmd("q", <<One, One, Rat(2), Zero>>), Cmd("t", <<One, Zero>>)>>,
     <<Cmd("c", <<Zero, One, One, One, Rat(2), Zero>>), Cmd("S", <<One, One, One, Zero>>)>>}

CmdSeqPaths ==
    {before \o <<arc>> \o after : before \in CmdSeqBefore, arc \in CmdSeqArcs, after \in {<<>>, <<CmdSeqSecondArc>>}}
    \cup {before \o <<arc>> \o after :
            before \in {<<Cmd("M", <<One, Zero>>)>>},
            arc \in {Cmd("a", <<One, One, Zero, Zero, One, One, One>>),
                     Cmd("A", <<Zero, One, Zero, Zero, One, Rat(2), Zero>>)},
            after \in CmdSeqAfter}
    \cup {before \o after : before \in CmdSeqBefore, after \in CmdSeqAfter \ {<<CmdSeqSecondArc>>}}

CmdSeqInit ==
    /\ docInput \in CmdSeqPaths
    /\ docTree = docInput
    /\ docPos = "as_path"
    /\ docFrontier = <<>>
    /\ docOut = <<>>
    /\ docFirst = <<>>
    /\ docError = ""
    /\ DocOthersRest

\* one rewrite of as_cmd_seq: self.d is replaced by what the walk wrote
CmdSeqRewrite(after, op, d) ==
    /\ docPos = after
    /\ \A i \in 1..Len(docTree) : check_cmd(docTree[i].cmd, docTree[i].args)
    /\ docTree' = d
    /\ docPos' = op
    /\ UNCHANGED <<docInput, docFrontier, docOut, docFirst, docError, DocOthers>>

CmdSeqExplicitLines == CmdSeqRewrite("as_path", "explicit_lines", explicit_lines(docTree))
CmdSeqExpandShorthand == CmdSeqRewrite("explicit_lines", "expand_shorthand", expand_shorthand(docTree))
CmdSeqAbsolute == CmdSeqRewrite("expand_shorthand", "absolute", absolute(docTree))
CmdSeqArcsToCubics == CmdSeqRewrite("absolute", "arcs_to_cubics", arcs_to_cubics(docTree))

\* skia_path(shape.as_cmd_seq(), shape.fill_rule)
CmdSeqSkiaPath ==
    /\ docPos = "arcs_to_cubics"
    /\ \E fill_rule \in _SVG_FILL_RULE_TO_SKIA_FILL_TYPE :
        /\ docError' = skia_path(docTree, fill_rule)
        /\ docOut' = fill_rule
    /\ docPos' = "skia_path"
    /\ UNCHANGED <<docInput, docTree, docFrontier, docFirst, DocOthers>>

CmdSeqNext ==
    \/ CmdSeqExplicitLines
    \/ CmdSeqExpandShorthand
    \/ CmdSeqAbsolute
    \/ CmdSeqArcsToCubics
    \/ CmdSeqSkiaPath

SpecCmdSeq == CmdSeqInit /\ [][CmdSeqNext]_vars

(***************************************************************************)
(* C28: the command alphabet handed to path operations.  When the last     *)
(* rewrite of as_cmd_seq has run, every command of the path is one of M,   *)
(* L, Q, C, Z, whatever relative, H/V, S/T and A commands the path had,    *)
(* and skia_path on it does not raise.                                     *)
(***************************************************************************)
C28_CommandAlphabet ==
    /\ docPos \in {"arcs_to_cubics", "skia_path"} =>
        \A i \in 1..Len(docTree) : docTree[i].cmd \in {"M", "L", "Q", "C", "Z"}
    /\ docPos = "skia_path" => docError = ""

\* a path with a relative move, a relative arc and a shorthand curve has gone
\* through as_cmd_seq and skia_path
C28_Witness ==
    /\ docPos = "skia_path"
    /\ \E i \in 1..Len(docInput) : docInput[i].cmd \in {"a", "A"}
    /\ \E i \in 1..Len(docInput) : docInput[i].cmd \in {"s", "S", "t", "T"}
    /\ \E i \in 1..Len(docTree) : docTree[i].cmd = "C"
    /\ \E i \in 1..Len(docTree) : docTree[i].cmd = "Q"

(***************************************************************************)
(* svg_types.py: the builder methods of SVGPath.  Each call appends one    *)
(* segment to d.  The path's d is in docTree, the calls made so far in     *)
(* docOut, each as the command its method is named after, and the number   *)
(* of calls is bounded by MaxBuilderCalls.                                 *)
(***************************************************************************)
MaxBuilderCalls == 2

\* SVGPath._add
_add(d, path_snippet) == IF Len(d) > 0 THEN d \o <<" ">> \o path_snippet ELSE path_snippet

\* SVGPath._add_cmd
_add_cmd(d, cmd, args) == _add(d, path_segment(cmd, args))

\* the letter each method hands to _add_cmd
BuilderLetter ==
    [M |-> "M", m |-> "m", H |-> "H", h |-> "h", V |-> "V", v |-> "v",
     L |-> "L", l |-> "L", C |-> "C", Q |-> "Q"]

BuilderNumbers == {DecZero, Dec(-1, 15, -1)}

\* SVGPath._arc
_arc(d, c, rx, ry, x, y, large_arc) ==
    _add(d, path_segment(c, <<rx, ry, DecZero, Dec(1, large_arc, 0), DecOne, x, y>>))

BuilderInit ==
    /\ docInput = <<>>
    /\ docTree \in {<<>>, <<"M", "1", ",", "1">>}
    /\ docPos = "SVGPath"
    /\ docFrontier = <<>>
    /\ docOut = IF Len(docTree) = 0 THEN <<>> ELSE <<Cmd("M", <<DecOne, DecOne>>)>>
    /\ docFirst = <<>>
    /\ docError = ""
    /\ DocOthersRest

BuilderCanCall == docPos = "SVGPath" /\ Len(docOut) < MaxBuilderCalls

BuilderUnchanged == UNCHANGED <<docInput, docFrontier, docFirst, docError, DocOthers>>

\* M, m, L, l with a point; H, h, V, v with a number
BuilderLine ==
    /\ BuilderCanCall
    /\ \E method \in {"M", "m", "L", "l", "H", "h", "V", "v"} :
       \E args \in [1..num_args(method) -> BuilderNumbers] :
        /\ docTree' = _add_cmd(docTree, BuilderLetter[method], args)
        /\ docOut' = Append(docOut, Cmd(method, args))
    /\ docPos' = docPos
    /\ BuilderUnchanged

\* C and Q
BuilderCurve ==
    /\ BuilderCanCall
    /\ \E method \in {"C", "Q"} :
       \E x \in BuilderNumbers, y \in {DecOne, DecTwo} :
       \E args \in {[i \in 1..num_args(method) |-> IF i % 2 = 1 THEN x ELSE y]} :
        /\ docTree' = _add_cmd(docTree, BuilderLetter[method], args)
        /\ docOut' = Append(docOut, Cmd(method, args))
    /\ docPos' = docPos
    /\ BuilderUnchanged

\* A and a: rotation 0 and sweep 1 are the method's own
BuilderArc ==
    /\ BuilderCanCall
    /\ \E method \in {"A", "a"} :
       \E rx \in {DecOne, DecTwo}, x \in BuilderNumbers, large_arc \in {0, 1} :
        /\ docTree' = _arc(docTree, method, rx, DecOne, x, DecOne, large_arc)
        /\ docOut' = Append(docOut, Cmd(method, <<rx, DecOne, DecZero, Dec(1, large_arc, 0), DecOne, x, DecOne>>))
    /\ docPos' = docPos
    /\ BuilderUnchanged

\* end()
BuilderEnd ==
    /\ BuilderCanCall
    /\ docTree' = _add(docTree, <<"Z">>)
    /\ docOut' = Append(docOut, Cmd("Z", <<>>))
    /\ docPos' = docPos
    /\ BuilderUnchanged

BuilderNext == BuilderLine \/ BuilderCurve \/ BuilderArc \/ BuilderEnd

SpecBuilder == BuilderInit /\ [][BuilderNext]_vars

(***************************************************************************)
(* C29: path builder letters.  After any sequence of builder calls d       *)
(* parses, and parses to the commands that were added: one command for     *)
(* each call, its letter the name of the method called (Z for end) and its *)
(* arguments the ones given, so that l(x, y) has added a relative lineto.  *)
(***************************************************************************)
C29_BuilderLetters ==
    docPos = "SVGPath" =>
        /\ parse_svg_path(docTree, TRUE).ok
        /\ parse_svg_path(docTree, TRUE).cmds = docOut

(***************************************************************************)
(* svg.py: SVG._add_to_defs called again and again on one defs element,    *)
(* as _transformed_gradient does for every gradient it makes.  The tree    *)
(* is in docTree with defs as its root, the ids defs had at first in       *)
(* docInput, and the ids of the elements handed to _add_to_defs so far in  *)
(* docOut ("" for an element without id), at most MaxDefsCalls of them.    *)
(***************************************************************************)
MaxDefsCalls == 3

\* the children of defs at first: in ascending order of id
DefsAtFirst ==
    {<<>>, <<"a">>, <<"b">>, <<"c">>, <<"a", "b">>, <<"a", "c">>, <<"b", "c">>, <<"a", "b", "c">>}

LinearGradient(id) == El("linearGradient", [n \in {"id"} |-> id], <<>>)

DefsInit ==
    /\ docInput \in DefsAtFirst
    /\ docTree = fromstring(El("defs", NoAttrib, [i \in 1..Len(docInput) |-> LinearGradient(docInput[i])]))
    /\ docPos = "_add_to_defs"
    /\ docFrontier = <<>>
    /\ docOut = <<>>
    /\ docFirst = <<>>
    /\ docError = ""
    /\ DocOthersRest

\* the ids of the children of defs, in document order
DefsIds == [i \in 1..Len(docTree[svg_root].children) |-> docTree[docTree[svg_root].children[i]].attrib["id"]]

\* self._add_to_defs(defs, new_fill) with the element new_fill just made
AddToDefs(new_fill) ==
    /\ docPos = "_add_to_defs"
    /\ Len(docOut) < MaxDefsCalls
    /\ \E st \in {_add_to_defs(fromstring_into(docTree, new_fill), svg_root, Len(docTree) + 1)} :
        /\ docTree' = st.tree
        /\ docError' = st.error
        /\ docPos' = IF st.error # "" THEN "raised" ELSE docPos
    /\ docOut' = Append(docOut, attrib_get(new_fill[2], "id", ""))
    /\ UNCHANGED <<docInput, docFrontier, docFirst, DocOthers>>

\* gradient.id = self._new_id(...): an id no element of the document has
AddGradient ==
    \E new_id \in {IdOrder[i] : i \in 1..Len(IdOrder)} :
        /\ \A i \in 1..Len(DefsIds) : DefsIds[i] # new_id
        /\ AddToDefs(LinearGradient(new_id))

\* an element without id
AddIdless == AddToDefs(El("linearGradient", NoAttrib, <<>>))

DefsNext == AddGradient \/ AddIdless

SpecDefs == DefsInit /\ [][DefsNext]_vars

(***************************************************************************)
(* C30: ordered defs.  The children of defs are in ascending order of id   *)
(* after every sequence of calls of _add_to_defs, whether the new id is    *)
(* smaller than all ids of defs, in between, or greater than all of them;  *)
(* and an element without an id is not inserted.                           *)
(***************************************************************************)
C30_DefsSorted ==
    /\ \A i \in 1..Len(docTree[svg_root].children) : "id" \in DOMAIN docTree[docTree[svg_root].children[i]].attrib
    /\ \A i \in 1..Len(DefsIds) - 1 : IdLt(DefsIds[i], DefsIds[i + 1])

====
